---- MODULE Spec2Model ----
(***************************************************************************)
(* Store client core of snapd (store/store.go).                            *)
(*                                                                         *)
(* Three specifications share this module:                                 *)
(*   Spec          one logical request through Store.doRequest: building   *)
(*                 the request (newRequest), sending it, and the 401       *)
(*                 refresh loop (refreshAuth, refreshUser,                 *)
(*                 refreshDeviceSession).                                  *)
(*   SpecSession   several goroutines calling refreshDeviceSession under   *)
(*                 sessionMu.                                              *)
(*   SpecDownload  Store.Download over the retry loop of downloadImpl.     *)
(***************************************************************************)
EXTENDS Integers, Sequences, FiniteSets, TLC

\* ------------------------------------------------------------------------
\* Bounds of the model and program constants
\* ------------------------------------------------------------------------

\* longest list of discharge macaroons a user carries in the model
MaxDischarges == 1

\* the refresh limit of doRequest: "resp.StatusCode == 401 && authRefreshes < 4"
MaxAuthRefreshes == 4

apiV1Endps == 0

apiV2Endps == 1

APILevels == {apiV1Endps, apiV2Endps}

deviceAuthPreferred == "deviceAuthPreferred"

deviceAuthCustomStoreOnly == "deviceAuthCustomStoreOnly"

UbuntuCoreWireProtocol == "1"

\* header names per API level (1-based: index apiLevel + 1)
hdrSnapDeviceAuthorization == <<"X-Device-Authorization", "Snap-Device-Authorization">>

hdrSnapDeviceStore == <<"X-Ubuntu-Store", "Snap-Device-Store">>

hdrSnapDeviceSeries == <<"X-Ubuntu-Series", "Snap-Device-Series">>

hdrSnapDeviceArchitecture == <<"X-Ubuntu-Architecture", "Snap-Device-Architecture">>

hdrSnapClassic == <<"X-Ubuntu-Classic", "Snap-Classic">>

\* ------------------------------------------------------------------------
\* State
\* ------------------------------------------------------------------------
VARIABLES
    \* --- the Store and its AuthContext
    dauthCtx,        \* TRUE iff s.dauthCtx != nil
    fallbackStoreID, \* s.fallbackStoreID
    ctxStoreID,      \* what AuthContext.StoreID answers: "err", or a store id
    ctxDevice,       \* the device state held by the AuthContext
    ctxUser,         \* the user state held by the AuthContext
    \* --- one doRequest call
    pc,              \* position in doRequest
    user,            \* the caller-supplied *auth.UserState
    reqOptions,      \* the request description
    authRefreshes,   \* doRequest's local counter
    req,             \* headers of the request built by newRequest
    resp,            \* the response of the last client.Do
    result,          \* what doRequest returned
    sent,            \* HTTP requests sent by client.Do for this call
    userRefreshes,   \* calls of refreshUser made by refreshAuth
    deviceRefreshes, \* calls of refreshDeviceSession made by refreshAuth
    first,           \* the first response this call received
    unauthorized,    \* 401 responses this call received
    last,            \* how the last refreshAuth call went
    openBodies,      \* bodies of responses this call received that are neither
                     \* closed nor handed to the caller
    \* --- goroutines refreshing the device session
    sessionMu,       \* the goroutine holding s.sessionMu, 0 when unlocked
    gpc,             \* each goroutine's position
    gdevice,         \* each goroutine's *device (its own copy of the state)
    gread,           \* the device state each goroutine read before the call
    gsession,        \* the session macaroon the store handed each goroutine
    gnet,            \* network calls each goroutine issued
    gout,            \* how each goroutine's refreshDeviceSession returned
    \* --- one Download call
    dpc,             \* position in Download / downloadImpl
    dlInfo,          \* downloadInfo: Size and Sha3_384
    leavePartial,    \* dlOpts.LeavePartialOnError
    partial,         \* <targetPath>.partial: exists, content
    wpos,            \* the file offset of w
    resume,          \* downloadImpl's resume offset
    attempts,        \* attempts the retry loop has started
    pass,            \* 1: the first download(), 2: the one after a hash error
    finalErr,        \* what download() returned
    target,          \* targetPath: exists, content
    dlResult,        \* what Download returned
    clean,           \* the partial file began as a prefix of the artifact and
                     \* the server has served nothing but the artifact
    interrupted,     \* bytes kept from a copy that a transport error cut
    resumed,         \* bytes a 206 response appended to the kept ones
    dlOpen,          \* bodies of responses the download loop received and left
    lastAttempt,     \* what the last attempt of the download loop met
                     \* open when it returned
    \* --- one SnapAction call
    saPc,            \* position in SnapAction / snapAction
    currentSnaps,    \* the caller's []*CurrentSnap
    actions,         \* the caller's []*SnapAction (snapAction writes to them)
    privacyKey,      \* opts.PrivacyKey, the request salt
    saRefreshes,     \* SnapAction's local authRefreshes
    batches,         \* batch requests handed to the request pipeline
    body,            \* the snapActionRequest of the last batch
    saAnswer,        \* what the pipeline returned for the last batch
    sars,            \* the []SnapActionResult of the last snapAction call
    saErr,           \* the error of the last snapAction call
    saResult,        \* how SnapAction ended: none, returned or panic
    softRefreshes,   \* refreshAuth calls made by SnapAction, and how the
                     \* last one went
    \* --- one Find call
    fPc,             \* position in Find / findV1
    search,          \* the caller's *Search
    findCalls,       \* requests handed to the pipeline: v2 and v1
    findQuery,       \* the query parameters of the last request
    findResp,        \* the response to the last request
    findResult,      \* what Find returned
    \* --- the download cache
    cacheCap,        \* the capacity of s.cacher, 0 for the null cache
    cacheFiles,      \* the files of the cache directory: key -> mtime, content
    cacheNow,        \* the clock modification times are taken from
    cacheLast,       \* the last operation on s.cacher and what it did
    \* --- the entry of Download: cache lookup and delta
    useDeltasOn,     \* useDeltas()
    dlDeltas,        \* len(downloadInfo.Deltas)
    deltaTried,      \* downloadAndApplyDelta was called
    deltaRequests,   \* HTTP requests of the delta download
    deltaInfoFormat, \* downloadInfo.Deltas[0].Format
    deltaPathExists, \* the delta's own file, <targetPath>.<format>-<from>-to-<to>.partial
    deltaErr,        \* what downloadAndApplyDelta returned
    \* --- one Buy call
    buyPc,           \* position in Buy
    buyOptions,      \* the caller's *client.BuyOptions
    buyUser,         \* TRUE iff user != nil
    buyCalls,        \* requests handed to the pipeline
    buyResp,         \* what the pipeline returned
    buyResult,       \* what Buy returned
    \* --- one findWildcard call
    fwPc,            \* position in findWildcard
    fwTree,          \* the directories under top and the entries in them
    fwPatterns,      \* descendantWithWildcard: one pattern for each level
    fwCbFails,       \* the relative paths for which foundCb returns an error
    fwSeen,          \* the matching entries the walk has come to
    fwCalls,         \* the relative paths foundCb was invoked with, in order
    fwResult,        \* what findWildcard returned
    \* --- one EnsureDeviceSession call beside other users of the session
    edsPc,           \* position in EnsureDeviceSession / refreshDeviceSession
    edsRead,         \* the device state Device() answered at the start
    edsDevice,       \* the caller's *device
    edsNet,          \* network calls of this call
    edsSession,      \* the session the store issued to this call, 0: none
    edsPeers,        \* sessions other goroutines have stored meanwhile
    edsResult,       \* what EnsureDeviceSession returned
    \* --- the choice of the download URL
    urlPc,           \* position of the caller
    urlCaller,       \* "Download", "DownloadStream" or "downloadDelta"
    urlInfo,         \* AnonDownloadURL and DownloadURL of the download (or delta) info
    urlUser,         \* the caller's *auth.UserState
    urlDauth,        \* s.dauthCtx and what its Device() answers
    urlUsed,         \* the URL the request is made to
    urlErr,          \* the error returned in place of a request
    \* --- one decodeJSONBody call
    decPc,           \* position in decodeJSONBody
    decResp,         \* the *http.Response: StatusCode, ContentLength, Body
    decShapes,       \* which of success and failure are non-nil
    decSuccess,      \* what success points to
    decFailure,      \* what failure points to
    decErr,          \* what decodeJSONBody returned
    \* --- one ConnectivityCheck call
    ccPc,            \* position in ConnectivityCheck / snapConnCheck
    ccStore,         \* the Store: host of the API, noCDN, dauthCtx and its CloudInfo
    ccAttempt,       \* the attempt the running RetryRequest is at
    ccInfo,          \* what the info request ended with
    ccResp,          \* what the HEAD request ended with
    ccHosts,         \* hosts
    ccErr,           \* the error of snapConnCheck
    ccStatus,        \* status: host -> reachable
    ccRet,           \* the error ConnectivityCheck returned
    \* --- the suggested currency and the goroutines that use it
    mu,              \* s.mu: 0 free, else the goroutine that holds it
    suggestedCurrency, \* s.suggestedCurrency
    scPc,            \* per goroutine: position in extractSuggestedCurrency / SuggestedCurrency
    scHeader,        \* per goroutine: X-Suggested-Currency of the response at hand
    scRet,           \* per goroutine: what SuggestedCurrency returned last
    scReadAt,        \* per goroutine: how many headers were recorded when it read
    scRecorded,      \* the headers recorded so far, in the order of the writes
    scOps            \* calls made so far

pipeVars == <<dauthCtx, fallbackStoreID, ctxStoreID, ctxDevice, ctxUser, pc, user,
              reqOptions, authRefreshes, req, resp, result, sent,
              userRefreshes, deviceRefreshes, first, unauthorized, last,
              openBodies>>

\* the pipeline's own variables (ctxDevice is shared with the goroutines)
pipeOnly == <<dauthCtx, fallbackStoreID, ctxStoreID, ctxUser, pc, user, reqOptions,
              authRefreshes, req, resp, result, sent, userRefreshes, deviceRefreshes,
              first, unauthorized, last,
              openBodies>>

sessVars == <<sessionMu, gpc, gdevice, gread, gsession, gnet, gout>>

dlVars == <<dpc, dlInfo, leavePartial, partial, wpos, resume, attempts, pass, finalErr,
            target, dlResult, clean, interrupted, resumed, dlOpen, lastAttempt>>

saVars == <<saPc, currentSnaps, actions, privacyKey, saRefreshes, batches, body,
            saAnswer, sars, saErr, saResult, softRefreshes>>

\* the state refreshAuth works on: shared by doRequest and SnapAction
authVars == <<dauthCtx, user, ctxUser, ctxDevice>>

\* the pipeline's variables that SnapAction leaves alone
pipeRest == <<fallbackStoreID, ctxStoreID, pc, reqOptions, authRefreshes, req, resp,
              result, sent, userRefreshes, deviceRefreshes, first, unauthorized, last,
              openBodies>>

findVars == <<fPc, search, findCalls, findQuery, findResp, findResult>>

cacheVars == <<cacheCap, cacheFiles, cacheNow, cacheLast>>

dlEntryVars == <<useDeltasOn, dlDeltas, deltaTried, deltaRequests, deltaInfoFormat,
                 deltaPathExists, deltaErr>>

buyVars == <<buyPc, buyOptions, buyUser, buyCalls, buyResp, buyResult>>

\* the operations that follow the download entry in this module
fwVars == <<fwPc, fwTree, fwPatterns, fwCbFails, fwSeen, fwCalls, fwResult>>

edsVars == <<edsPc, edsRead, edsDevice, edsNet, edsSession, edsPeers, edsResult>>

urlVars == <<urlPc, urlCaller, urlInfo, urlUser, urlDauth, urlUsed, urlErr>>

decVars == <<decPc, decResp, decShapes, decSuccess, decFailure, decErr>>

connVars == <<ccPc, ccStore, ccAttempt, ccInfo, ccResp, ccHosts, ccErr, ccStatus, ccRet>>

curVars == <<mu, suggestedCurrency, scPc, scHeader, scRet, scReadAt, scRecorded, scOps>>

tailVars == <<connVars, curVars>>

lastVars == <<urlVars, decVars, tailVars>>

laterVars == <<buyVars, fwVars, edsVars, lastVars>>

\* the operations up to the download entry
earlierVars == <<pipeVars, sessVars, dlVars, saVars, findVars, cacheVars, dlEntryVars>>

vars == <<earlierVars, laterVars>>

\* what the actions of each specification leave alone
notPipeline == <<sessVars, dlVars, saVars, findVars, cacheVars, dlEntryVars, laterVars>>

notSession == <<pipeOnly, dlVars, saVars, findVars, cacheVars, dlEntryVars, laterVars>>

\* what Download leaves alone, but for the entry and the cache
besidesDownload == <<pipeVars, sessVars, saVars, findVars, laterVars>>

notDownload == <<besidesDownload, cacheVars, dlEntryVars>>

notSnapAction == <<pipeRest, sessVars, dlVars, findVars, cacheVars, dlEntryVars, laterVars>>

notFind == <<pipeVars, sessVars, dlVars, saVars, cacheVars, dlEntryVars, laterVars>>

notBuy == <<earlierVars, fwVars, edsVars, lastVars>>

notWildcard == <<earlierVars, buyVars, edsVars, lastVars>>

notURL == <<earlierVars, buyVars, fwVars, edsVars, decVars, tailVars>>

notDecode == <<earlierVars, buyVars, fwVars, edsVars, urlVars, tailVars>>

notConn == <<earlierVars, buyVars, fwVars, edsVars, urlVars, decVars, curVars>>

notCurrency == <<earlierVars, buyVars, fwVars, edsVars, urlVars, decVars, connVars>>

\* EnsureDeviceSession works on the device state of the AuthContext
notEnsure == <<pipeOnly, sessVars, dlVars, saVars, findVars, cacheVars, dlEntryVars,
               buyVars, fwVars, lastVars>>

notCache == <<pipeVars, sessVars, dlVars, saVars, findVars, dlEntryVars, laterVars>>

\* ------------------------------------------------------------------------
\* Macaroons (overlord/auth is an opaque service: serialize / deserialize /
\* bind / refresh).  A root macaroon is a string, a discharge a pair
\* <<location, generation>>; "bad-root" and <<"bad", _>> do not deserialize.
\* ------------------------------------------------------------------------
UbuntuoneLocation == "sso"

RootDeserializes(m) == m # "bad-root"

DischargeDeserializes(d) == d[1] # "bad"

Location(d) == d[1]

\* discharge.Bind(root.Signature()) followed by MacaroonSerialize
BindAndSerialize(d, root) == <<d[1], d[2], root>>

\* refreshDischargeMacaroon: SSO hands out the next generation
RefreshedDischarge(d) == <<d[1], d[2] + 1>>

NoUser == [present |-> FALSE, StoreMacaroon |-> "", StoreDischarges |-> <<>>]

HasStoreAuth(u) == u.present /\ u.StoreMacaroon # ""

\* ------------------------------------------------------------------------
\* Request headers: a function from header names to values
\* ------------------------------------------------------------------------
NoHeaders == [k \in {} |-> ""]

SetHeader(h, k, v) == [x \in (DOMAIN h) \cup {k} |-> IF x = k THEN v ELSE h[x]]

HasHeader(h, k) == k \in DOMAIN h

\* authenticateUser: the Authorization header, unless a macaroon fails to
\* deserialize (logged, request left without the header)
authenticateUser(h, u) ==
    IF ~RootDeserializes(u.StoreMacaroon)
    THEN h
    ELSE IF \E i \in 1..Len(u.StoreDischarges) :
                ~DischargeDeserializes(u.StoreDischarges[i])
         THEN h
         ELSE SetHeader(h, "Authorization",
                  [root |-> u.StoreMacaroon,
                   discharges |-> [i \in 1..Len(u.StoreDischarges) |->
                       BindAndSerialize(u.StoreDischarges[i], u.StoreMacaroon)]])

\* authenticateDevice: the device authorization header under the name of the
\* API level, only for a device with a session macaroon (0 is the empty one)
authenticateDevice(h, device, apiLevel) ==
    IF device.SessionMacaroon # 0
    THEN SetHeader(h, hdrSnapDeviceAuthorization[apiLevel + 1],
                   <<"Macaroon root", device.SessionMacaroon>>)
    ELSE h

\* the store id setStoreID settles on
StoreIDFor(hasCtx, fallback, answer) ==
    IF hasCtx /\ answer # "err"
    THEN (IF answer = "fallback" THEN fallback ELSE answer)
    ELSE fallback

\* setStoreID: the header is set, and the store is custom, iff an id is known
setStoreID(h, apiLevel, storeID) ==
    IF storeID # ""
    THEN [hdrs |-> SetHeader(h, hdrSnapDeviceStore[apiLevel + 1], storeID),
          customStore |-> TRUE]
    ELSE [hdrs |-> h, customStore |-> FALSE]

\* ------------------------------------------------------------------------
\* Device session
\* ------------------------------------------------------------------------

\* AuthContext.UpdateDeviceAuth: stores the new session unless the state has
\* moved on since the caller read it; answers the current state
UpdateDeviceAuth(cur, device, session) ==
    IF device.SessionMacaroon = cur.SessionMacaroon
    THEN [cur EXCEPT !.SessionMacaroon = session]
    ELSE cur

\* requestDeviceSession: the store issues a session the device never had
IssuedSession(previous) == previous + 1

\* refreshDeviceSession run by a single goroutine, start to end.  Each element
\* is one possible run: ok, the caller's device afterwards, the AuthContext's
\* device afterwards.
refreshDeviceSession(device, cur) ==
    LET failed == [ok |-> FALSE, device |-> device, ctx |-> cur]
        stored == UpdateDeviceAuth(cur, device, IssuedSession(device.SessionMacaroon))
    IN  \* Device(), nonce, session-request params, session exchange or
        \* UpdateDeviceAuth fails
        {failed}
        \cup
        (IF cur # device
         THEN {[ok |-> TRUE, device |-> cur, ctx |-> cur]}
         ELSE {[ok |-> TRUE, device |-> stored, ctx |-> stored]})

errNone == "none"

ErrNoSerial == "ErrNoSerial"

errOther == "error"

\* EnsureDeviceSession, given that an AuthContext is present
EnsureDeviceSession(cur) ==
    {[err |-> errOther, device |-> cur, ctx |-> cur]}     \* Device() fails
    \cup
    (IF cur.SessionMacaroon # 0
     THEN {[err |-> errNone, device |-> cur, ctx |-> cur]}
     ELSE IF cur.Serial = ""
          THEN {[err |-> ErrNoSerial, device |-> cur, ctx |-> cur]}
          ELSE {[err |-> (IF r.ok THEN errNone ELSE errOther),
                 device |-> r.device, ctx |-> r.ctx] :
                    r \in refreshDeviceSession(cur, cur)})

\* ------------------------------------------------------------------------
\* User credentials
\* ------------------------------------------------------------------------

\* AuthContext.UpdateUserAuth: stores the new discharges unless the state has
\* moved on since the caller read it; answers the current state
UpdateUserAuth(cur, u, newDischarges) ==
    IF u.StoreDischarges = cur.StoreDischarges
    THEN [cur EXCEPT !.StoreDischarges = newDischarges]
    ELSE cur

\* refreshDischarges: every SSO discharge is refreshed, the others pass
\* through; a discharge that does not deserialize, or a failed refresh
\* request, is an error
refreshDischarges(u) ==
    LET ds   == u.StoreDischarges
        idx  == 1..Len(ds)
        bad  == \E i \in idx : ~DischargeDeserializes(ds[i])
        sso  == \E i \in idx : DischargeDeserializes(ds[i])
                                 /\ Location(ds[i]) = UbuntuoneLocation
        new  == [i \in idx |-> IF Location(ds[i]) # UbuntuoneLocation
                               THEN ds[i] ELSE RefreshedDischarge(ds[i])]
    IN  (IF bad THEN {} ELSE {[ok |-> TRUE, discharges |-> new]})
        \cup
        (IF bad \/ sso THEN {[ok |-> FALSE, discharges |-> ds]} ELSE {})

\* the caller's value is written before UpdateUserAuth has answered
refreshUserWritesEarly(u, hasCtx, cur) ==
    IF ~hasCtx
    THEN {[ok |-> FALSE, user |-> u, ctx |-> cur]}
    ELSE UNION {{[ok |-> FALSE, user |-> [u EXCEPT !.StoreDischarges = rd.discharges],
                  ctx |-> cur],
                 [ok |-> TRUE, user |-> UpdateUserAuth(cur, u, rd.discharges),
                  ctx |-> UpdateUserAuth(cur, u, rd.discharges)]} :
                    rd \in refreshDischarges(u)}

\* the AuthContext is updated but the caller's value is not
refreshUserNotInPlace(u, hasCtx, cur) ==
    LET failed == [ok |-> FALSE, user |-> u, ctx |-> cur]
    IN  IF ~hasCtx
        THEN {failed}
        ELSE {failed}
             \cup
             {[ok |-> TRUE, user |-> u,
               ctx |-> UpdateUserAuth(cur, u, rd.discharges)] :
                  rd \in {x \in refreshDischarges(u) : x.ok}}

\* refreshUser: each element is one possible run: ok, the caller's value
\* afterwards, the AuthContext's user afterwards
refreshUser(u, hasCtx, cur) ==
    LET failed == [ok |-> FALSE, user |-> u, ctx |-> cur]
    IN  IF ~hasCtx
        THEN {failed}
        ELSE {failed}          \* UpdateUserAuth (or a discharge refresh) fails
             \cup
             {[ok |-> TRUE,
               user |-> UpdateUserAuth(cur, u, rd.discharges),    \* *user = *curUser
               ctx |-> UpdateUserAuth(cur, u, rd.discharges)] :
                  rd \in {x \in refreshDischarges(u) : x.ok}}

NoRefresh == [user |-> "none", device |-> "none"]

\* refreshAuth(user, need): the user first, then the device session; the
\* first failure returns.  Each element is one possible run.
refreshAuth(u, needUser, needDevice, hasCtx, curUser, curDevice) ==
    LET users == IF needUser
                 THEN refreshUser(u, hasCtx, curUser)
                 ELSE {[ok |-> TRUE, user |-> u, ctx |-> curUser]}
        how(tried, ok) == IF ~tried THEN "none" ELSE IF ok THEN "ok" ELSE "failed"
        devices(ru) ==
            IF ~ru.ok \/ ~needDevice
            THEN {[ok |-> ru.ok, ctx |-> curDevice, tried |-> FALSE]}
            ELSE IF ~hasCtx
                 THEN {[ok |-> FALSE, ctx |-> curDevice, tried |-> TRUE]}
                 ELSE {[ok |-> FALSE, ctx |-> curDevice, tried |-> TRUE]}   \* Device() fails
                      \cup
                      {[ok |-> rd.ok, ctx |-> rd.ctx, tried |-> TRUE] :
                           rd \in refreshDeviceSession(curDevice, curDevice)}
    IN  UNION {{[ok |-> rd.ok, user |-> ru.user, ctxUser |-> ru.ctx, ctxDevice |-> rd.ctx,
                 how |-> [user |-> how(needUser, ru.ok),
                          device |-> how(rd.tried, rd.ok)]] :
                    rd \in devices(ru)} : ru \in users}

\* ------------------------------------------------------------------------
\* Store.newRequest
\* ------------------------------------------------------------------------
userAgent == "snapd"

wireProtocolOnEveryLevel(h, apiLevel) ==
    SetHeader(h, "X-Ubuntu-Wire-Protocol", UbuntuCoreWireProtocol)

\* "if reqOptions.APILevel == apiV1Endps": the wire protocol header
wireProtocolHeader(h, apiLevel) ==
    IF apiLevel = apiV1Endps
    THEN SetHeader(h, "X-Ubuntu-Wire-Protocol", UbuntuCoreWireProtocol)
    ELSE h

\* the headers set after authentication, in the order of the code
fixedHeaders(h, opts) ==
    LET lvl == opts.APILevel
        h1  == SetHeader(h, "User-Agent", userAgent)
        h2  == SetHeader(h1, "Accept", opts.Accept)
        h3  == SetHeader(h2, hdrSnapDeviceArchitecture[lvl + 1], "amd64")
        h4  == SetHeader(h3, hdrSnapDeviceSeries[lvl + 1], "16")
        h5  == SetHeader(h4, hdrSnapClassic[lvl + 1], "true")
        h6  == SetHeader(h5, "Snap-Device-Capabilities", "default-tracks")
        h7  == IF opts.ClientUserAgent # ""
               THEN SetHeader(h6, "Snap-Client-User-Agent", opts.ClientUserAgent)
               ELSE h6
        h8  == wireProtocolHeader(h7, lvl)
        h9  == IF opts.ContentType # ""
               THEN SetHeader(h8, "Content-Type", opts.ContentType)
               ELSE h8
    IN  [k \in (DOMAIN h9) \cup (DOMAIN opts.ExtraHeaders) |->
            IF k \in DOMAIN opts.ExtraHeaders THEN opts.ExtraHeaders[k] ELSE h9[k]]

wantsDeviceAuthCustomOnly(hasCtx, customStore, need) == hasCtx /\ customStore

\* whether newRequest asks for a device session
wantsDeviceAuth(hasCtx, customStore, need) ==
    hasCtx /\ (customStore \/ need # deviceAuthCustomStoreOnly)

userAuthHeadersUnguarded(h, u) == IF u.present THEN authenticateUser(h, u) ELSE h

\* the user part of newRequest
userAuthHeaders(h, u) == IF HasStoreAuth(u) THEN authenticateUser(h, u) ELSE h

\* newRequest: each element is one possible outcome: an error, or the headers
\* of the request; ctx is the AuthContext's device afterwards
newRequest(opts, u, hasCtx, fallback, answer, curDevice) ==
    LET sid == setStoreID(NoHeaders, opts.APILevel, StoreIDFor(hasCtx, fallback, answer))
        sessions ==
            IF wantsDeviceAuth(hasCtx, sid.customStore, opts.DeviceAuthNeed)
            THEN EnsureDeviceSession(curDevice)
            ELSE {[err |-> "skipped", device |-> curDevice, ctx |-> curDevice]}
        withDevice(e) ==
            IF e.err = errNone
            THEN authenticateDevice(sid.hdrs, e.device, opts.APILevel)
            ELSE sid.hdrs
    IN  {IF e.err = errOther
         THEN [err |-> TRUE, hdrs |-> NoHeaders, ctx |-> e.ctx]
         ELSE [err |-> FALSE,
               hdrs |-> fixedHeaders(userAuthHeaders(withDevice(e), u), opts),
               ctx |-> e.ctx] : e \in sessions}

\* ------------------------------------------------------------------------
\* Store.doRequest
\* ------------------------------------------------------------------------
NoResp == [status |-> 0, hints |-> {}]

AuthHints == {"needs_refresh=1", "refresh_device_session=1"}

\* what a store may answer: WWW-Authenticate matters on a 401 only
Responses ==
    {[status |-> st, hints |-> {}] : st \in {200, 500}}
    \cup {[status |-> 401, hints |-> hs] : hs \in SUBSET AuthHints}

\* the refresh need doRequest derives from a response
needsUserRefresh(u, r) == u.present /\ "needs_refresh=1" \in r.hints

\* the hint is looked for under another spelling
needsDeviceRefreshMisspelt(r) == "refresh_device=1" \in r.hints

needsDeviceRefresh(r) == "refresh_device_session=1" \in r.hints

mayRefreshOnceMore(r, refreshes) == r.status = 401 /\ refreshes <= MaxAuthRefreshes

\* the guard of the refresh branch
mayRefresh(r, refreshes) == r.status = 401 /\ refreshes < MaxAuthRefreshes

refreshNeeded(u, r, refreshes) ==
    mayRefresh(r, refreshes) /\ (needsUserRefresh(u, r) \/ needsDeviceRefresh(r))

configVars == <<dauthCtx, fallbackStoreID, ctxStoreID, reqOptions>>

\* req, err := s.newRequest(...) succeeded
BuildRequest ==
    /\ pc = "newRequest"
    /\ \E o \in newRequest(reqOptions, user, dauthCtx, fallbackStoreID, ctxStoreID, ctxDevice) :
          /\ ~o.err
          /\ req' = o.hdrs
          /\ ctxDevice' = o.ctx
    /\ pc' = "send"
    /\ UNCHANGED <<configVars, ctxUser, user, authRefreshes, resp, result, sent,
                   userRefreshes, deviceRefreshes, first, unauthorized, last>>
    /\ openBodies' = openBodies
    /\ UNCHANGED notPipeline

\* s.newRequest failed: doRequest returns the error
BuildRequestFails ==
    /\ pc = "newRequest"
    /\ \E o \in newRequest(reqOptions, user, dauthCtx, fallbackStoreID, ctxStoreID, ctxDevice) :
          /\ o.err
          /\ ctxDevice' = o.ctx
    /\ req' = NoHeaders
    /\ pc' = "done"
    /\ result' = [kind |-> "error", resp |-> NoResp]
    /\ UNCHANGED <<configVars, ctxUser, user, authRefreshes, resp, sent,
                   userRefreshes, deviceRefreshes, first, unauthorized, last>>
    /\ openBodies' = openBodies
    /\ UNCHANGED notPipeline

\* resp, err := client.Do(req) answered
ClientDo ==
    /\ pc = "send"
    /\ \E r \in Responses :
          /\ resp' = r
          /\ first' = IF sent = 0 THEN r ELSE first
          /\ unauthorized' = unauthorized + (IF r.status = 401 THEN 1 ELSE 0)
    /\ sent' = sent + 1
    /\ pc' = "response"
    /\ UNCHANGED <<configVars, ctxDevice, ctxUser, user, authRefreshes, req, result,
                   userRefreshes, deviceRefreshes, last>>
    /\ openBodies' = openBodies + 1
    /\ UNCHANGED notPipeline

\* client.Do failed (transport error): doRequest returns the error
ClientDoFails ==
    /\ pc = "send"
    /\ sent' = sent + 1
    /\ pc' = "done"
    /\ result' = [kind |-> "error", resp |-> NoResp]
    /\ UNCHANGED <<configVars, ctxDevice, ctxUser, user, authRefreshes, req, resp,
                   userRefreshes, deviceRefreshes, first, unauthorized, last>>
    /\ openBodies' = openBodies
    /\ UNCHANGED notPipeline

\* a 401 with refresh hints: refreshAuth succeeded, the response is closed
\* and the loop builds the request again
RefreshAndRetry ==
    /\ pc = "response"
    /\ refreshNeeded(user, resp, authRefreshes)
    /\ \E r \in refreshAuth(user, needsUserRefresh(user, resp), needsDeviceRefresh(resp),
                             dauthCtx, ctxUser, ctxDevice) :
          /\ r.ok
          /\ user' = r.user
          /\ ctxUser' = r.ctxUser
          /\ ctxDevice' = r.ctxDevice
          /\ last' = r.how
          /\ userRefreshes' = userRefreshes + (IF r.how.user = "none" THEN 0 ELSE 1)
          /\ deviceRefreshes' = deviceRefreshes + (IF r.how.device = "none" THEN 0 ELSE 1)
    /\ authRefreshes' = authRefreshes + 1
    /\ pc' = "newRequest"
    /\ UNCHANGED <<configVars, req, resp, result, sent, first, unauthorized>>
    /\ openBodies' = openBodies - 1
    /\ UNCHANGED notPipeline

\* a 401 with refresh hints: refreshAuth failed, doRequest returns its error
RefreshFails ==
    /\ pc = "response"
    /\ refreshNeeded(user, resp, authRefreshes)
    /\ \E r \in refreshAuth(user, needsUserRefresh(user, resp), needsDeviceRefresh(resp),
                             dauthCtx, ctxUser, ctxDevice) :
          /\ ~r.ok
          /\ user' = r.user
          /\ ctxUser' = r.ctxUser
          /\ ctxDevice' = r.ctxDevice
          /\ last' = r.how
          /\ userRefreshes' = userRefreshes + (IF r.how.user = "none" THEN 0 ELSE 1)
          /\ deviceRefreshes' = deviceRefreshes + (IF r.how.device = "none" THEN 0 ELSE 1)
    /\ pc' = "done"
    /\ result' = [kind |-> "error", resp |-> NoResp]
    /\ UNCHANGED <<configVars, authRefreshes, req, resp, sent, first, unauthorized>>
    /\ openBodies' = openBodies
    /\ UNCHANGED notPipeline

\* any other response is returned to the caller
ReturnResponse ==
    /\ pc = "response"
    /\ ~refreshNeeded(user, resp, authRefreshes)
    /\ pc' = "done"
    /\ result' = [kind |-> "response", resp |-> resp]
    /\ UNCHANGED <<configVars, ctxDevice, ctxUser, user, authRefreshes, req, resp, sent,
                   userRefreshes, deviceRefreshes, first, unauthorized, last>>
    /\ openBodies' = openBodies - 1
    /\ UNCHANGED notPipeline

\* ------------------------------------------------------------------------
\* Concurrent callers of Store.refreshDeviceSession
\* ------------------------------------------------------------------------

\* goroutines sharing the Store
NumGoroutines == 3

Goroutines == 1..NumGoroutines

NoDevice == [Serial |-> "", SessionMacaroon |-> 0]

stateNeverAdvanced(device1, device) == FALSE

\* "*device1 != *device": the state moved on since the caller read it
stateAdvanced(device1, device) == device1 # device

\* a return with an error keeps the mutex
returnLockedOnError(g, how) ==
    /\ sessionMu' = IF how = "failed" THEN sessionMu ELSE 0
    /\ gpc' = [gpc EXCEPT ![g] = "done"]
    /\ gout' = [gout EXCEPT ![g] = how]

\* defer s.sessionMu.Unlock(), and the return
unlockAndReturn(g, how) ==
    /\ sessionMu' = 0
    /\ gpc' = [gpc EXCEPT ![g] = "done"]
    /\ gout' = [gout EXCEPT ![g] = how]

\* the caller (refreshAuth, EnsureDeviceSession) reads the device state and
\* calls refreshDeviceSession with it
CallerReadsDevice(g) ==
    /\ gpc[g] = "idle"
    /\ gdevice' = [gdevice EXCEPT ![g] = ctxDevice]
    /\ gread' = [gread EXCEPT ![g] = ctxDevice]
    /\ gpc' = [gpc EXCEPT ![g] = "lock"]
    /\ UNCHANGED <<ctxDevice, sessionMu, gsession, gnet, gout>>
    /\ UNCHANGED notSession

\* s.sessionMu.Lock()
Lock(g) ==
    /\ gpc[g] = "lock"
    /\ sessionMu = 0
    /\ sessionMu' = g
    /\ gpc' = [gpc EXCEPT ![g] = "reread"]
    /\ UNCHANGED <<ctxDevice, gdevice, gread, gsession, gnet, gout>>
    /\ UNCHANGED notSession

\* device1 := Device(); another goroutine got a new session meanwhile:
\* adopt it and return
RereadAdopt(g) ==
    /\ gpc[g] = "reread"
    /\ stateAdvanced(ctxDevice, gdevice[g])
    /\ gdevice' = [gdevice EXCEPT ![g] = ctxDevice]
    /\ unlockAndReturn(g, "adopted")
    /\ UNCHANGED <<ctxDevice, gread, gsession, gnet>>
    /\ UNCHANGED notSession

\* device1 := Device(); nothing changed: go on to the exchange
RereadSame(g) ==
    /\ gpc[g] = "reread"
    /\ ~stateAdvanced(ctxDevice, gdevice[g])
    /\ gpc' = [gpc EXCEPT ![g] = "nonce"]
    /\ UNCHANGED <<ctxDevice, sessionMu, gdevice, gread, gsession, gnet, gout>>
    /\ UNCHANGED notSession

\* requestStoreDeviceNonce answered
RequestNonce(g) ==
    /\ gpc[g] = "nonce"
    /\ gnet' = [gnet EXCEPT ![g] = @ + 1]
    /\ gpc' = [gpc EXCEPT ![g] = "params"]
    /\ UNCHANGED <<ctxDevice, sessionMu, gdevice, gread, gsession, gout>>
    /\ UNCHANGED notSession

\* DeviceSessionRequestParams(nonce) answered
SessionRequestParams(g) ==
    /\ gpc[g] = "params"
    /\ gpc' = [gpc EXCEPT ![g] = "session"]
    /\ UNCHANGED <<ctxDevice, sessionMu, gdevice, gread, gsession, gnet, gout>>
    /\ UNCHANGED notSession

\* requestDeviceSession answered with a new session macaroon
RequestSession(g) ==
    /\ gpc[g] = "session"
    /\ gnet' = [gnet EXCEPT ![g] = @ + 1]
    /\ gsession' = [gsession EXCEPT ![g] = IssuedSession(gdevice[g].SessionMacaroon)]
    /\ gpc' = [gpc EXCEPT ![g] = "update"]
    /\ UNCHANGED <<ctxDevice, sessionMu, gdevice, gread, gout>>
    /\ UNCHANGED notSession

\* UpdateDeviceAuth(device, session) stored the session; *device = *curDevice
StoreSession(g) ==
    /\ gpc[g] = "update"
    /\ ctxDevice' = UpdateDeviceAuth(ctxDevice, gdevice[g], gsession[g])
    /\ gdevice' = [gdevice EXCEPT ![g] = ctxDevice']
    /\ unlockAndReturn(g, "refreshed")
    /\ UNCHANGED <<gread, gsession, gnet>>
    /\ UNCHANGED notSession

\* Device(), the nonce request, DeviceSessionRequestParams, the session
\* request or UpdateDeviceAuth failed: the error is returned (a failed
\* network request was still issued)
SessionStepFails(g) ==
    /\ gpc[g] \in {"reread", "nonce", "params", "session", "update"}
    /\ gnet' = [gnet EXCEPT ![g] = IF gpc[g] \in {"nonce", "session"} THEN @ + 1 ELSE @]
    /\ unlockAndReturn(g, "failed")
    /\ UNCHANGED <<ctxDevice, gdevice, gread, gsession>>
    /\ UNCHANGED notSession

IdleSession ==
    /\ sessionMu = 0
    /\ gpc = [g \in Goroutines |-> "idle"]
    /\ gdevice = [g \in Goroutines |-> NoDevice]
    /\ gread = [g \in Goroutines |-> NoDevice]
    /\ gsession = [g \in Goroutines |-> 0]
    /\ gnet = [g \in Goroutines |-> 0]
    /\ gout = [g \in Goroutines |-> "none"]

\* ------------------------------------------------------------------------
\* The download cache: SetCacheDownloads, and Get, Put and GetPath of the
\* cache manager as the specification describes them
\* ------------------------------------------------------------------------

\* largest capacity, number of cache keys, and operations that stamp a time
MaxCache == 2

MaxKeys == 3

MaxCacheOps == 4

CacheKeys == 1..MaxKeys

noFiles == [k \in {} |-> [mtime |-> 0, content |-> <<>>]]

\* the cache manager keeps one file more than asked
cacherKeepsOneMore(fileCount) == IF fileCount > 0 THEN fileCount + 1 ELSE 0

\* the bound of s.cacher after SetCacheDownloads(fileCount): the one of
\* NewCacheManager(dir, fileCount), or 0 for the nullCache
cacherCapacity(fileCount) == IF fileCount > 0 THEN fileCount ELSE 0

\* the cache holds an entry under the key
cacheHolds(files, fileCount, key) ==
    cacherCapacity(fileCount) > 0 /\ key \in DOMAIN files

\* Get touches the entry
cacheTouch(files, key, now) == [files EXCEPT ![key].mtime = now]

\* the entry with the oldest modification time
oldestFile(files) ==
    CHOOSE k \in DOMAIN files : \A j \in DOMAIN files : files[k].mtime <= files[j].mtime

\* eviction of the least recently used entries until within the bound
RECURSIVE cacheCleanup(_, _)
cacheCleanup(files, bound) ==
    IF Cardinality(DOMAIN files) <= bound THEN files
    ELSE cacheCleanup([k \in (DOMAIN files) \ {oldestFile(files)} |-> files[k]], bound)

\* Put: the file is linked into the cache under the key, then the cleanup;
\* the null cache does nothing
cachePut(files, fileCount, key, content, now) ==
    IF cacherCapacity(fileCount) = 0 THEN files
    ELSE cacheCleanup([k \in (DOMAIN files) \cup {key} |->
                          IF k = key THEN [mtime |-> now, content |-> content]
                          ELSE files[k]],
                      cacherCapacity(fileCount))

NoCacheOp == [op |-> "none", key |-> 0, hit |-> FALSE, before |-> noFiles]

\* a Store without a download cache
IdleCache ==
    /\ cacheCap = 0
    /\ cacheFiles = noFiles
    /\ cacheNow = 0
    /\ cacheLast = NoCacheOp

\* SetCacheDownloads(fileCount): a new cache manager over the same directory
SetCacheDownloads ==
    /\ \E fileCount \in 0..MaxCache :
          /\ fileCount # cacheCap
          /\ cacheCap' = fileCount
    /\ cacheLast' = [op |-> "SetCacheDownloads", key |-> 0, hit |-> FALSE,
                     before |-> cacheFiles]
    /\ UNCHANGED <<cacheFiles, cacheNow>>
    /\ UNCHANGED notCache

CacheGet ==
    /\ cacheNow < MaxCacheOps
    /\ \E key \in CacheKeys :
          /\ cacheLast' = [op |-> "Get", key |-> key,
                           hit |-> cacheHolds(cacheFiles, cacheCap, key),
                           before |-> cacheFiles]
          /\ cacheFiles' = IF cacheHolds(cacheFiles, cacheCap, key)
                           THEN cacheTouch(cacheFiles, key, cacheNow + 1)
                           ELSE cacheFiles
    /\ cacheNow' = cacheNow + 1
    /\ UNCHANGED cacheCap
    /\ UNCHANGED notCache

CachePut ==
    /\ cacheNow < MaxCacheOps
    /\ \E key \in CacheKeys :
          /\ cacheLast' = [op |-> "Put", key |-> key, hit |-> FALSE,
                           before |-> cacheFiles]
          /\ cacheFiles' = cachePut(cacheFiles, cacheCap, key, <<key>>, cacheNow + 1)
    /\ cacheNow' = cacheNow + 1
    /\ UNCHANGED cacheCap
    /\ UNCHANGED notCache

CacheGetPath ==
    /\ \E key \in CacheKeys :
          /\ cacheLast' = [op |-> "GetPath", key |-> key,
                           hit |-> cacheHolds(cacheFiles, cacheCap, key),
                           before |-> cacheFiles]
          /\ cacheLast' # cacheLast
    /\ UNCHANGED <<cacheCap, cacheFiles, cacheNow>>
    /\ UNCHANGED notCache

\* ------------------------------------------------------------------------
\* Store.Download and downloadImpl after a miss of the download cache and
\* without a delta (the cache holds nothing and deltas are disabled)
\* ------------------------------------------------------------------------

\* longest body a response carries
MaxBody == 2

\* largest size the partial file may have or reach
MaxFile == 3

\* downloadRetryStrategy: retry.LimitCount(7, ...)
DownloadAttempts == 7

Bytes == {1, 2}

\* the snap the download info describes
Artifact == <<1, 2>>

SeqsUpTo(n) == UNION {[1..k -> Bytes] : k \in 0..n}

\* SHA3-384 as a collision-free hash: h.Write(bytes) on the hasher state h
RECURSIVE Sha3Write(_, _)
Sha3Write(h, bytes) ==
    IF bytes = <<>> THEN h
    ELSE Sha3Write(h * (Cardinality(Bytes) + 1) + Head(bytes), Tail(bytes))

\* crypto.SHA3_384.New()
Sha3New == 0

\* the hash of a whole content
Sha3(content) == Sha3Write(Sha3New, content)

\* an empty Sha3_384 in the download info
NoHash == -1

\* w.Write(bytes) at offset pos: overwrites, and extends the file at its end
WriteAt(content, pos, bytes) ==
    LET end == IF pos + Len(bytes) > Len(content) THEN pos + Len(bytes) ELSE Len(content)
    IN  [i \in 1..end |-> IF i > pos /\ i <= pos + Len(bytes)
                          THEN bytes[i - pos] ELSE content[i]]

IsPrefix(p, q) == Len(p) <= Len(q) /\ SubSeq(q, 1, Len(p)) = p

\* what an honest store answers to a request with "Range: bytes=<from>-"
\* (from = 0: no Range header)
HonestAnswers(from) ==
    {[status |-> 200, body |-> Artifact]}
    \cup (IF from > 0 /\ from < Len(Artifact)
          THEN {[status |-> 206, body |-> SubSeq(Artifact, from + 1, Len(Artifact))]}
          ELSE {})

\* every 200 or 206 answer of a store, honest or not
ContentAnswers == {[status |-> st, body |-> b] : st \in {200, 206}, b \in SeqsUpTo(MaxBody)}

\* attempt.More() in the n-th attempt: the count allows another one and the
\* total time is not used up
moreAttempts(n, timeLeft) == n < DownloadAttempts /\ timeLeft

\* every error status is worth another attempt
ShouldRetryEveryErrorStatus(n, timeLeft, status) == moreAttempts(n, timeLeft) /\ status >= 400

\* httputil.ShouldRetryHttpResponse
ShouldRetryHttpResponse(n, timeLeft, status) == moreAttempts(n, timeLeft) /\ status >= 500

\* httputil.ShouldRetryAttempt; retryable: the error is of a kind worth a
\* retry and the total time is not used up
ShouldRetryAttempt(n, retryable) == moreAttempts(n, retryable)

\* the bytes a copy delivers before a transport error cuts it
Delivered(a) == {SubSeq(a.body, 1, k) : k \in 0..Len(a.body)}

\* a cut copy may be the beginning of an honest answer
HonestCut(from, status, bytes) ==
    \E a \in HonestAnswers(from) : a.status = status /\ bytes \in Delivered(a)

\* the top of an attempt: with resume > 0 a Range header is sent and the local
\* file is fed to a new hasher, which leaves w at the end of the file
seeded ==
    IF resume > 0
    THEN [h |-> Sha3(partial.content), pos |-> Len(partial.content)]
    ELSE [h |-> Sha3New, pos |-> wpos]

\* "resume > 0 && resp.StatusCode != 206": the server does not support
\* resume: w.Seek(0, SEEK_SET), a new hasher, resume = 0
afterStatus(status) ==
    IF resume > 0 /\ status # 206
    THEN [h |-> Sha3New, pos |-> 0, resume |-> 0]
    ELSE [h |-> seeded.h, pos |-> seeded.pos, resume |-> resume]

resumeNotRefreshed(oldResume, size) == oldResume

\* "resume, seekerr = w.Seek(0, os.SEEK_END)" after an interrupted copy
resumeAfterInterrupt(oldResume, size) == size

\* the hash check at the end of a copy
hashError(expected, actual) == expected # NoHash /\ expected # actual

\* the attempt gets to its request: the local file has resume bytes
attemptStarts ==
    /\ dpc = "attempt"
    /\ attempts < DownloadAttempts
    /\ (resume > 0 => Len(partial.content) = resume)

loopReturns(err) ==
    /\ dpc' = "returned"
    /\ finalErr' = err

dlConfig == <<dlInfo, leavePartial>>

\* Download opens <targetPath>.partial and starts the download loop at the
\* size the file already has
DownloadOpen ==
    /\ dpc = "start"
    /\ dlInfo.Size = 0 \/ Len(partial.content) < dlInfo.Size
    /\ partial' = [partial EXCEPT !.exists = TRUE]
    /\ resume' = Len(partial.content)
    /\ wpos' = Len(partial.content)
    /\ dpc' = "attempt"
    /\ UNCHANGED <<dlConfig, dlOpen, lastAttempt, attempts, pass, finalErr, target, dlResult, clean,
                   interrupted, resumed>>
    /\ UNCHANGED notDownload

\* the partial file already has the full size: only its hash is checked
DownloadOpenComplete ==
    /\ dpc = "start"
    /\ ~(dlInfo.Size = 0 \/ Len(partial.content) < dlInfo.Size)
    /\ partial' = [partial EXCEPT !.exists = TRUE]
    /\ resume' = Len(partial.content)
    /\ wpos' = Len(partial.content)
    /\ loopReturns(IF dlInfo.Sha3_384 # Sha3(partial.content) THEN "HashError" ELSE "none")
    /\ UNCHANGED <<dlConfig, dlOpen, lastAttempt, attempts, pass, target, dlResult, clean, interrupted, resumed>>
    /\ UNCHANGED notDownload

\* no attempt was made yet
NoAttempt == [met |-> "none", status |-> 0, err |-> "none"]

\* what an attempt met, the status of the response it got, if any, and the
\* error the loop returned for it, if it did
attemptMet(met, status, err) == [met |-> met, status |-> status, err |-> err]

\* the statuses other than 200 and 206 a store or CDN answers with
OtherStatuses == {204, 402, 404, 500}

\* "case 402: please buy ...; default: &DownloadError{Code: resp.StatusCode, ...}"
statusError(status) == IF status = 402 THEN "please buy" ELSE "DownloadError"

\* a fatal return from the loop before the request: the context is cancelled,
\* or, with resume > 0, w.Seek(0, SEEK_SET) or io.Copy(h, w) fails or the local
\* file does not have resume bytes ("resume offset wrong"); the context found
\* cancelled after a completed copy returns in the same way
AttemptCancelled ==
    /\ dpc = "attempt"
    /\ attempts < DownloadAttempts
    /\ attempts' = attempts + 1
    /\ wpos' = seeded.pos
    /\ \E met \in {"cancelled", "seek error", "resume offset wrong"} :
          /\ met = "seek error" => resume > 0
          /\ met = "resume offset wrong" => (resume > 0 /\ Len(partial.content) # resume)
          /\ met = "cancelled" => (resume > 0 => Len(partial.content) = resume)
          /\ lastAttempt' = attemptMet(met, 0, met)
    /\ loopReturns("error")
    /\ UNCHANGED <<dlConfig, dlOpen, partial, resume, pass, target, dlResult, clean,
                   interrupted, resumed>>
    /\ UNCHANGED notDownload

\* doRequest returned a response and the context is found cancelled right
\* after, or the server does not support resume (a status other than 206 to a
\* request with resume > 0) and w.Seek(0, SEEK_SET) fails: the loop returns
\* before "defer resp.Body.Close()" and before it looks at the status further
AttemptLeavesBody ==
    /\ attemptStarts
    /\ wpos' = seeded.pos
    /\ attempts' = attempts + 1
    /\ dlOpen' = dlOpen + 1
    /\ \E met \in {"cancelled", "seek error"} :
          /\ met = "seek error" => resume > 0
          /\ lastAttempt' = attemptMet(met, 0, met)
    /\ loopReturns("error")
    /\ UNCHANGED <<dlInfo, leavePartial, partial, resume, pass, target, dlResult, clean,
                   interrupted, resumed>>
    /\ UNCHANGED notDownload

\* doRequest returned an error: the next attempt, or the end of the loop
AttemptRequestFails ==
    /\ attemptStarts
    /\ attempts' = attempts + 1
    /\ wpos' = seeded.pos
    /\ \E retryable \in BOOLEAN :
          IF ShouldRetryAttempt(attempts + 1, retryable)
          THEN /\ lastAttempt' = attemptMet("transport error", 0, "none")
               /\ UNCHANGED <<dpc, finalErr>>
          ELSE /\ lastAttempt' = attemptMet("transport error", 0, "transport error")
               /\ loopReturns("error")
    /\ UNCHANGED <<dlConfig, dlOpen, partial, resume, pass, target, dlResult, clean,
                   interrupted, resumed>>
    /\ UNCHANGED notDownload

\* a 5xx response while the strategy allows another attempt: the body is
\* closed and the loop goes on
AttemptRetryableStatus ==
    /\ attemptStarts
    /\ \E status \in OtherStatuses, timeLeft \in BOOLEAN :
          /\ ShouldRetryHttpResponse(attempts + 1, timeLeft, status)
          /\ resume' = afterStatus(status).resume
          /\ wpos' = afterStatus(status).pos
          /\ lastAttempt' = attemptMet("response", status, "none")
    /\ attempts' = attempts + 1
    /\ UNCHANGED <<dlConfig, dlOpen, dpc, partial, pass, finalErr, target, dlResult, clean,
                   interrupted, resumed>>
    /\ UNCHANGED notDownload

\* 402, or any other status than 200 and 206 that is not retried: an error
AttemptBadStatus ==
    /\ attemptStarts
    /\ \E status \in OtherStatuses, timeLeft \in BOOLEAN :
          /\ ~ShouldRetryHttpResponse(attempts + 1, timeLeft, status)
          /\ resume' = afterStatus(status).resume
          /\ wpos' = afterStatus(status).pos
          /\ lastAttempt' = attemptMet("response", status, statusError(status))
    /\ attempts' = attempts + 1
    /\ loopReturns("error")
    /\ UNCHANGED <<dlConfig, dlOpen, partial, pass, target, dlResult, clean, interrupted,
                   resumed>>
    /\ UNCHANGED notDownload

\* 200 or 206: io.Copy into the file and the hasher fails after k bytes; the
\* loop goes on when the error is worth a retry and w.Seek(0, SEEK_END) gives
\* the new resume offset, and returns the error of the copy otherwise
AttemptCopyInterrupted ==
    /\ attemptStarts
    /\ \E status \in {200, 206}, bytes \in SeqsUpTo(MaxBody), retryable \in BOOLEAN,
          seekFails \in BOOLEAN :
          LET st   == afterStatus(status)
              file == WriteAt(partial.content, st.pos, bytes)
          IN  /\ Len(file) <= MaxFile
              /\ partial' = [partial EXCEPT !.content = file]
              /\ clean' = (clean /\ HonestCut(resume, status, bytes))
              /\ interrupted' = (interrupted \/ Len(bytes) > 0)
              /\ seekFails => ShouldRetryAttempt(attempts + 1, retryable)
              /\ IF ShouldRetryAttempt(attempts + 1, retryable) /\ ~seekFails
                 THEN /\ resume' = resumeAfterInterrupt(st.resume, Len(file))
                      /\ wpos' = Len(file)
                      /\ lastAttempt' = attemptMet("copy error", status, "none")
                      /\ UNCHANGED <<dpc, finalErr>>
                 ELSE /\ resume' = st.resume
                      /\ wpos' = st.pos + Len(bytes)
                      /\ lastAttempt' =
                             attemptMet(IF seekFails THEN "copy and seek error"
                                        ELSE "copy error", status, "copy error")
                      /\ loopReturns("error")
    /\ attempts' = attempts + 1
    /\ UNCHANGED <<dlConfig, dlOpen, pass, target, dlResult, resumed>>
    /\ UNCHANGED notDownload

\* 200 or 206: the whole body is copied and the hash is checked
AttemptCopyComplete ==
    /\ attemptStarts
    /\ \E a \in ContentAnswers :
          LET st   == afterStatus(a.status)
              file == WriteAt(partial.content, st.pos, a.body)
              h    == Sha3Write(st.h, a.body)
              err  == IF hashError(dlInfo.Sha3_384, h) THEN "HashError" ELSE "none"
          IN  /\ Len(file) <= MaxFile
              /\ partial' = [partial EXCEPT !.content = file]
              /\ clean' = (clean /\ a \in HonestAnswers(resume))
              /\ resumed' = (resumed \/ (st.resume > 0 /\ interrupted))
              /\ resume' = st.resume
              /\ wpos' = st.pos + Len(a.body)
              /\ lastAttempt' = attemptMet("copied", a.status, err)
              /\ loopReturns(err)
    /\ attempts' = attempts + 1
    /\ UNCHANGED <<dlConfig, dlOpen, pass, target, dlResult, interrupted>>
    /\ UNCHANGED notDownload

\* every hash error is retried
retriesEveryHashError(err, run) == err = "HashError"

\* "if _, ok := err.(HashError); ok" after the first download() or the check
\* of a complete partial file; the second download() is the last statement
\* that assigns err before the return
retriesHashError(err, run) == err = "HashError" /\ run = 1

\* "If hashsum is incorrect retry once": truncate and download from scratch
HashRetry ==
    /\ dpc = "returned"
    /\ retriesHashError(finalErr, pass)
    /\ partial' = [partial EXCEPT !.content = <<>>]
    /\ wpos' = 0
    /\ resume' = 0
    /\ attempts' = 0
    /\ pass' = 2
    /\ finalErr' = "none"
    /\ dpc' = "attempt"
    /\ UNCHANGED <<dlConfig, dlOpen, lastAttempt, target, dlResult, clean, interrupted, resumed>>
    /\ UNCHANGED notDownload

\* the deferred function on an error return: the partial file is removed
\* unless it is to be left and has content
removedOnError(leave, size) == ~leave \/ size = 0

\* Download returns the error of the loop
DownloadFails ==
    /\ dpc = "returned"
    /\ finalErr # "none"
    /\ ~retriesHashError(finalErr, pass)
    /\ dlResult' = "error"
    /\ dpc' = "done"
    /\ partial' = IF removedOnError(leavePartial, Len(partial.content))
                  THEN [exists |-> FALSE, content |-> <<>>]
                  ELSE partial
    /\ UNCHANGED <<dlConfig, dlOpen, lastAttempt, wpos, resume, attempts, pass, finalErr, target, clean,
                   interrupted, resumed>>
    /\ UNCHANGED notDownload

\* os.Rename(partial, targetPath), Sync, cacher.Put: success
DownloadFinish ==
    /\ dpc = "returned"
    /\ finalErr = "none"
    /\ target' = [exists |-> TRUE, content |-> partial.content]
    /\ partial' = [exists |-> FALSE, content |-> <<>>]
    /\ dlResult' = "ok"
    /\ dpc' = "done"
    /\ cacheFiles' = cachePut(cacheFiles, cacheCap, dlInfo.Sha3_384, partial.content,
                              cacheNow + 1)
    /\ cacheLast' = [op |-> "Put", key |-> dlInfo.Sha3_384, hit |-> FALSE,
                     before |-> cacheFiles]
    /\ cacheNow' = cacheNow + 1
    /\ UNCHANGED <<dlConfig, dlOpen, lastAttempt, wpos, resume, attempts, pass, finalErr, clean,
                   interrupted, resumed>>
    /\ UNCHANGED <<cacheCap, dlEntryVars>>
    /\ UNCHANGED besidesDownload

\* the deferred function sees the variable err of Download, which the
\* returns of "if err := ...; err != nil { return err }" do not assign (they
\* return a variable of their own); a failing w.Close() is stored in err when
\* err is nil.  With err set the partial file is removed unless it is to be
\* left and has content.
deferredRemoves(errAssigned, closeFails, leave, size) ==
    (errAssigned \/ closeFails) /\ removedOnError(leave, size)

\* the partial file after the deferred function
afterDeferred(file, errAssigned, closeFails) ==
    IF deferredRemoves(errAssigned, closeFails, leavePartial, Len(file.content))
    THEN [exists |-> FALSE, content |-> <<>>]
    ELSE file

\* Download ends with an error that is not the download loop's
downloadReturns(err, file) ==
    /\ dlResult' = err
    /\ dpc' = "done"
    /\ partial' = file
    /\ UNCHANGED <<dlConfig, dlOpen, lastAttempt, wpos, resume, attempts, pass, finalErr, clean, interrupted,
                   resumed>>
    /\ UNCHANGED notDownload

\* "authAvail, err := s.authAvailable(user)" fails: no user with store
\* authorisation and AuthContext.Device() returns an error
DownloadAuthFails ==
    /\ dpc = "start"
    /\ ~HasStoreAuth(user) /\ dauthCtx
    /\ downloadReturns("auth error",
                       afterDeferred([partial EXCEPT !.exists = TRUE], TRUE, FALSE))
    /\ UNCHANGED target

\* the partial file already has the full size and w.Seek(0, SEEK_SET) or
\* io.Copy(h, w) fails
DownloadCheckFails ==
    /\ dpc = "start"
    /\ ~(dlInfo.Size = 0 \/ Len(partial.content) < dlInfo.Size)
    /\ \E closeFails \in BOOLEAN :
          downloadReturns("check error",
                          afterDeferred([partial EXCEPT !.exists = TRUE], FALSE, closeFails))
    /\ UNCHANGED target

\* after a hash error w.Truncate(0) fails, or the w.Seek(0, SEEK_SET) after it
HashRetryFails ==
    /\ dpc = "returned"
    /\ retriesHashError(finalErr, pass)
    /\ \E truncated \in BOOLEAN :
          downloadReturns("truncate error",
                          afterDeferred(IF truncated
                                        THEN [partial EXCEPT !.content = <<>>]
                                        ELSE partial, TRUE, FALSE))
    /\ UNCHANGED target

\* os.Rename(w.Name(), targetPath) fails
DownloadRenameFails ==
    /\ dpc = "returned"
    /\ finalErr = "none"
    /\ \E closeFails \in BOOLEAN :
          downloadReturns("rename error", afterDeferred(partial, FALSE, closeFails))
    /\ UNCHANGED target

\* the file is renamed and w.Sync() fails, or s.cacher.Put after it
DownloadSyncFails ==
    /\ dpc = "returned"
    /\ finalErr = "none"
    /\ target' = [exists |-> TRUE, content |-> partial.content]
    /\ \E err \in {"sync error", "put error"} :
          downloadReturns(err, [exists |-> FALSE, content |-> <<>>])

\* no Download runs
IdleDownload ==
    /\ dpc = "done"
    /\ dlInfo = [Size |-> 0, Sha3_384 |-> NoHash]
    /\ leavePartial = FALSE
    /\ partial = [exists |-> FALSE, content |-> <<>>]
    /\ wpos = 0
    /\ resume = 0
    /\ attempts = 0
    /\ pass = 1
    /\ finalErr = "none"
    /\ target = [exists |-> FALSE, content |-> <<>>]
    /\ dlResult = "none"
    /\ clean = TRUE
    /\ interrupted = FALSE
    /\ resumed = FALSE
    /\ dlOpen = 0
    /\ lastAttempt = NoAttempt

\* a Download is called: the size may be unknown (0), the hash may be empty,
\* and <targetPath>.partial may hold anything an earlier call left there
InitDownload ==
    /\ dpc = "start"
    /\ dlInfo \in {[Size |-> sz, Sha3_384 |-> h] :
                      sz \in {0, Len(Artifact)}, h \in {NoHash, Sha3(Artifact)}}
    /\ leavePartial \in BOOLEAN
    /\ partial \in {[exists |-> Len(c) > 0, content |-> c] : c \in SeqsUpTo(MaxFile)}
    /\ wpos = 0
    /\ resume = 0
    /\ attempts = 0
    /\ pass = 1
    /\ finalErr = "none"
    /\ target = [exists |-> FALSE, content |-> <<>>]
    /\ dlResult = "none"
    /\ clean = IsPrefix(partial.content, Artifact)
    /\ interrupted = FALSE
    /\ resumed = FALSE
    /\ dlOpen = 0
    /\ lastAttempt = NoAttempt

\* ------------------------------------------------------------------------
\* Store.SnapAction and Store.snapAction
\* Strings that are hashed, joined or searched are sequences of characters.
\* ------------------------------------------------------------------------

\* the characters snap ids, local instance keys and salts are made of
Alphabet == <<"i", "j", "k", "m", "s", "t">>

CharCode(c) == CHOOSE n \in 1..Len(Alphabet) : Alphabet[n] = c

\* SHA-256 as a collision-free hash: h.Write(bytes) on the hasher state h
RECURSIVE Sha256Write(_, _)
Sha256Write(h, bytes) ==
    IF bytes = <<>> THEN h
    ELSE Sha256Write(h * (Len(Alphabet) + 1) + CharCode(Head(bytes)), Tail(bytes))

\* crypto.SHA256.New()
Sha256New == 0

\* base64.RawURLEncoding.EncodeToString(h.Sum(nil)): one text per sum, in an
\* alphabet of its own
Base64(sum) == <<ToString(sum)>>

\* an instance name <snap>_<key> is kept split; NoName is the empty string
NoName == [snap |-> "", key |-> <<>>]

\* snap.SplitInstanceName
SplitInstanceName(name) == <<name.snap, name.key>>

\* snap.InstanceSnap
InstanceSnap(name) == name.snap

\* snap.Revision.Unset
Unset(rev) == rev = 0

\* snap.Epoch.IsZero
IsZero(epoch) == epoch = 0

\* the local key goes out as it is
genInstanceKeyRaw(curSnap, salt) ==
    LET snapInstanceKey == SplitInstanceName(curSnap.InstanceName)[2]
    IN  IF snapInstanceKey = <<>>
        THEN [err |-> FALSE, key |-> curSnap.SnapID]
        ELSE IF salt = <<>>
             THEN [err |-> TRUE, key |-> <<>>]
             ELSE [err |-> FALSE, key |-> curSnap.SnapID \o <<":">> \o snapInstanceKey]

\* genInstanceKey: the snap id, or for a snap with a local key the snap id, a
\* colon and the encoded hash of snap id, local key and salt
genInstanceKey(curSnap, salt) ==
    LET snapInstanceKey == SplitInstanceName(curSnap.InstanceName)[2]
        h1 == Sha256Write(Sha256New, curSnap.SnapID)
        h2 == Sha256Write(h1, snapInstanceKey)
        h3 == Sha256Write(h2, salt)
    IN  IF snapInstanceKey = <<>>
        THEN [err |-> FALSE, key |-> curSnap.SnapID]
        ELSE IF salt = <<>>
             THEN [err |-> TRUE, key |-> <<>>]
             ELSE [err |-> FALSE, key |-> curSnap.SnapID \o <<":">> \o Base64(h3)]

\* "curSnap.SnapID == "" || curSnap.InstanceName == "" || curSnap.Revision.Unset()"
invalidCurrentSnap(c) ==
    c.SnapID = <<>> \/ c.InstanceName = NoName \/ Unset(c.Revision)

\* the first loop of snapAction fails: invalid information, or no salt for a
\* snap with a local key
contextFails(snaps, salt) ==
    \E i \in 1..Len(snaps) :
        invalidCurrentSnap(snaps[i]) \/ genInstanceKey(snaps[i], salt).err

\* the largest index of a non-empty set of indexes: a later map write wins
LastOf(idx) == CHOOSE i \in idx : \A j \in idx : j <= i

\* curSnaps: instance-key -> current snap
curSnapsMap(snaps, salt) ==
    LET key(i) == genInstanceKey(snaps[i], salt).key
        keys   == {key(i) : i \in 1..Len(snaps)}
    IN  [k \in keys |-> snaps[LastOf({i \in 1..Len(snaps) : key(i) = k})]]

\* instanceNameToKey: instance name -> instance-key
instanceNameToKey(snaps, salt) ==
    LET names == {snaps[i].InstanceName : i \in 1..Len(snaps)}
    IN  [n \in names |->
            genInstanceKey(snaps[LastOf({i \in 1..Len(snaps) :
                                            snaps[i].InstanceName = n})], salt).key]

\* currentSnapV2JSON of every current snap
contextJSON(snaps, salt) ==
    [i \in 1..Len(snaps) |->
        [SnapID          |-> snaps[i].SnapID,
         InstanceKey     |-> genInstanceKey(snaps[i], salt).key,
         Revision        |-> snaps[i].Revision,
         TrackingChannel |-> IF snaps[i].TrackingChannel = ""
                             THEN "stable" ELSE snaps[i].TrackingChannel,
         Epoch           |-> snaps[i].Epoch]]

\* every kind of action passes
isValidActionAny(action) == TRUE

\* isValidAction: "download", "install" and "refresh"
isValidAction(action) == action \in {"download", "install", "refresh"}

\* why the second loop of snapAction returns at an action, "" if it does not
actionFailure(a) ==
    IF ~isValidAction(a.Action) THEN "unsupported action"
    ELSE IF a.InstanceName = NoName THEN "action without instance name"
    ELSE IF a.Action = "download" /\ SplitInstanceName(a.InstanceName)[2] # <<>>
         THEN "unsupported download with instance name"
         ELSE ""

\* the index of the first action the loop returns at, 0 if there is none
failingAction(acts) ==
    LET failing == {i \in 1..Len(acts) : actionFailure(acts[i]) # ""}
    IN  IF failing = {} THEN 0 ELSE CHOOSE i \in failing : \A j \in failing : i <= j

\* one counter for the actions of every kind
actionNumShared(acts, i) == i

\* installNum / downloadNum when the loop is at action i
actionNum(acts, i) ==
    Cardinality({j \in 1..i : acts[j].Action = acts[i].Action})

\* the instance-key of action i: install-<n>, download-<n>, or for a refresh
\* the key of the current snap of that name ("" when there is none)
actionInstanceKey(acts, i, nameToKey) ==
    IF acts[i].Action = "install"
    THEN <<"install-", ToString(actionNum(acts, i))>>
    ELSE IF acts[i].Action = "download"
         THEN <<"download-", ToString(actionNum(acts, i))>>
         ELSE IF acts[i].InstanceName \in DOMAIN nameToKey
              THEN nameToKey[acts[i].InstanceName]
              ELSE <<>>

epochOnEveryAction(a) ==
    [field |-> IF IsZero(a.Epoch) THEN "null" ELSE "value", value |-> a.Epoch]

\* the epoch field of a marshalled action: aJSON.Epoch is an interface with
\* omitempty, left unset for a refresh and set to a pointer for install and
\* download, a nil one (null in the JSON) for a zero epoch
actionEpoch(a) ==
    IF a.Action # "refresh"
    THEN [field |-> IF IsZero(a.Epoch) THEN "null" ELSE "value", value |-> a.Epoch]
    ELSE [field |-> "omitted", value |-> 0]

\* snapActionJSON of action i; an empty Name, Channel or a zero Revision is
\* omitted from the JSON
actionJSON(acts, i, nameToKey) ==
    [Action      |-> acts[i].Action,
     InstanceKey |-> actionInstanceKey(acts, i, nameToKey),
     Name        |-> IF acts[i].Action # "refresh"
                     THEN InstanceSnap(acts[i].InstanceName) ELSE "",
     SnapID      |-> acts[i].SnapID,
     Channel     |-> acts[i].Channel,
     Revision    |-> acts[i].Revision,
     Epoch       |-> actionEpoch(acts[i])]

\* "if !a.Revision.Unset() { a.Channel = "" }": a write to the caller's action
channelCleared(a) == IF ~Unset(a.Revision) THEN [a EXCEPT !.Channel = ""] ELSE a

\* the caller's actions after the second loop of snapAction, which may have
\* returned at an action
actionsAfter(acts) ==
    LET f == failingAction(acts)
        reached(i) ==
            \/ f = 0
            \/ i < f
            \/ i = f /\ actionFailure(acts[i]) = "unsupported download with instance name"
    IN  [i \in 1..Len(acts) |-> IF reached(i) THEN channelCleared(acts[i]) ELSE acts[i]]

\* installs, downloads, refreshes: instance-key -> (index of) the action
actionsMap(acts, nameToKey, kind) ==
    LET mine == {i \in 1..Len(acts) : acts[i].Action = kind}
        key(i) == actionInstanceKey(acts, i, nameToKey)
    IN  [k \in {key(i) : i \in mine} |-> LastOf({i \in mine : key(i) = k})]

\* the request snapAction builds: an internal error, or the body and the maps
\* the results are looked up in
snapActionRequest(snaps, acts, salt) ==
    LET nameToKey == instanceNameToKey(snaps, salt)
    IN  IF contextFails(snaps, salt) \/ failingAction(acts) # 0
        THEN [err |-> TRUE]
        ELSE [err       |-> FALSE,
              body      |-> [Context |-> contextJSON(snaps, salt),
                             Actions |-> [i \in 1..Len(acts) |->
                                             actionJSON(acts, i, nameToKey)]],
              curSnaps  |-> curSnapsMap(snaps, salt),
              installs  |-> actionsMap(acts, nameToKey, "install"),
              downloads |-> actionsMap(acts, nameToKey, "download"),
              refreshes |-> actionsMap(acts, nameToKey, "refresh")]

\* ------------------------------------------------------------------------
\* snapAction: filing the results of a 200 response
\* ------------------------------------------------------------------------

\* m[k] = v on a Go map
mapSet(m, k, v) == [x \in (DOMAIN m) \cup {k} |-> IF x = k THEN v ELSE m[x]]

emptyMap == [k \in {} |-> 0]

\* the codes of the soft-expiry errors
userNeedsRefreshCode == "user-authorization-needs-refresh"

deviceNeedsRefreshCode == "device-authorization-needs-refresh"

\* translateSnapActionError: the error made of a result; n tells which result
\* (or entry of the error list) it was made of
translateSnapActionError(action, channel, code, n) ==
    [action |-> action, channel |-> channel, code |-> code, n |-> n]

errUserAuthorizationNeedsRefresh(e) == e.code = userNeedsRefreshCode

errDeviceAuthorizationNeedsRefresh(e) == e.code = deviceNeedsRefreshCode

ErrNoUpdateAvailable(n) ==
    [action |-> "refresh", channel |-> "", code |-> "snap has no updates available", n |-> n]

findRev(needle, haystack) == \E i \in 1..Len(haystack) : haystack[i] = needle

noFiled ==
    [refreshErrors |-> emptyMap, installErrors |-> emptyMap, downloadErrors |-> emptyMap,
     otherErrors |-> <<>>, sars |-> <<>>, failed |-> FALSE]

\* an offered revision that is the current or a blocked one is still a result
skipsNothing(rrev, cur) == FALSE

\* "rrev == cur.Revision || findRev(rrev, cur.Block)"
noUpdate(rrev, cur) == rrev = cur.Revision \/ findRev(rrev, cur.Block)

\* every error below an action goes to the other list
nameGivenNever(res) == FALSE

\* "res.Name != """ of an error result for an install or a download
nameGiven(res) == res.Name # ""

\* the body of the loop over results.Results, for result n: rq holds the maps
\* of the request, acts the caller's actions the maps point to
fileResult(st, res, n, rq, acts) ==
    LET k == res.InstanceKey
        toOther(e) == [st EXCEPT !.otherErrors = Append(@, e)]
        unfiled == toOther(translateSnapActionError("", "", res.Code, n))
        failed == [st EXCEPT !.failed = TRUE]
    IN  IF res.Result = "error"
        THEN IF k \in DOMAIN rq.installs
             THEN LET a == acts[rq.installs[k]]
                  IN  IF nameGiven(res)
                      THEN [st EXCEPT !.installErrors = mapSet(@, a.InstanceName,
                               translateSnapActionError("install", a.Channel, res.Code, n))]
                      ELSE unfiled
             ELSE IF k \in DOMAIN rq.downloads
             THEN LET a == acts[rq.downloads[k]]
                  IN  IF nameGiven(res)
                      THEN [st EXCEPT !.downloadErrors = mapSet(@, res.Name,
                               translateSnapActionError("download", a.Channel, res.Code, n))]
                      ELSE unfiled
             ELSE IF k \in DOMAIN rq.curSnaps
             THEN LET cur == rq.curSnaps[k]
                  IN  IF k \notin DOMAIN rq.refreshes
                      THEN \* an error for a snap that was not part of an action
                           unfiled
                      ELSE LET a == acts[rq.refreshes[k]]
                               channel == IF a.Channel = "" /\ Unset(a.Revision)
                                          THEN cur.TrackingChannel ELSE a.Channel
                           IN  [st EXCEPT !.refreshErrors = mapSet(@, cur.InstanceName,
                                   translateSnapActionError("refresh", channel, res.Code, n))]
             ELSE unfiled
        ELSE IF res.Result = "refresh" /\ k \notin DOMAIN rq.curSnaps
        THEN failed       \* "unexpected refresh"
        ELSE IF res.Result = "refresh" /\ noUpdate(res.Revision, rq.curSnaps[k])
        THEN [st EXCEPT !.refreshErrors = mapSet(@, rq.curSnaps[k].InstanceName,
                                                 ErrNoUpdateAvailable(n))]
        ELSE LET instanceName ==
                     IF res.Result = "refresh" THEN rq.curSnaps[k].InstanceName
                     ELSE IF res.Result = "install" /\ k \in DOMAIN rq.installs
                          THEN acts[rq.installs[k]].InstanceName
                          ELSE NoName
             IN  IF res.Result # "download" /\ instanceName = NoName
                 THEN failed       \* "unexpected instance-key"
                 ELSE [st EXCEPT !.sars = Append(@,
                          [Result      |-> res.Result,
                           Revision    |-> res.Revision,
                           InstanceKey |-> SplitInstanceName(instanceName)[2],
                           n           |-> n])]

\* the loop over results.Results from result n on; it returns at the first
\* result that cannot be placed
RECURSIVE fileResults(_, _, _, _, _)
fileResults(st, results, n, rq, acts) ==
    IF n > Len(results) \/ st.failed THEN st
    ELSE fileResults(fileResult(st, results[n], n, rq, acts), results, n + 1, rq, acts)

\* the entries of results.ErrorList go to the other list
RECURSIVE fileErrorList(_, _, _, _)
fileErrorList(st, errorList, j, base) ==
    IF j > Len(errorList) THEN st
    ELSE fileErrorList(
             [st EXCEPT !.otherErrors =
                 Append(@, translateSnapActionError("", "", errorList[j], base + j))],
             errorList, j + 1, base)

noError ==
    [kind |-> "none", NoResults |-> FALSE, Refresh |-> emptyMap, Install |-> emptyMap,
     Download |-> emptyMap, Other |-> <<>>]

\* an error that is not a *SnapActionError
plainError == [noError EXCEPT !.kind = "error"]

\* &SnapActionError{NoResults: true}
nothingToDo == [noError EXCEPT !.kind = "SnapActionError", !.NoResults = TRUE]

\* what snapAction returns for an answer of the request pipeline
snapActionReturns(rq, acts, ans) ==
    IF ans.kind # "200"
    THEN \* retryRequestDecodeJSON failed, or the status is not 200
         [sars |-> <<>>, err |-> plainError]
    ELSE LET placed == fileResults(noFiled, ans.results, 1, rq, acts)
             st == fileErrorList(placed, ans.errorList, 1, Len(ans.results))
         IN  IF placed.failed
             THEN [sars |-> <<>>, err |-> plainError]
             ELSE IF \/ DOMAIN st.refreshErrors # {}
                     \/ DOMAIN st.installErrors # {}
                     \/ DOMAIN st.downloadErrors # {}
                     \/ Len(ans.results) = 0
                     \/ Len(st.otherErrors) # 0
                  THEN [sars |-> st.sars,
                        err  |-> [kind      |-> "SnapActionError",
                                  NoResults |-> Len(ans.results) = 0,
                                  Refresh   |-> st.refreshErrors,
                                  Install   |-> st.installErrors,
                                  Download  |-> st.downloadErrors,
                                  Other     |-> st.otherErrors]]
                  ELSE [sars |-> st.sars, err |-> noError]

\* ------------------------------------------------------------------------
\* SnapAction: inputs, answers and steps
\* ------------------------------------------------------------------------

\* longest list of current snaps, of actions, and of results in an answer
MaxSnaps == 2

MaxActions == 2

MaxResults == 2

\* longest error list of an answer to a batch that may be re-issued, and
\* longest input lists of such a batch
MaxErrorList == 2

MaxReissuedLen == 1

\* "authRefreshes < 2" in SnapAction
MaxSoftRefreshes == 2

Salts == {<<>>, <<"s">>, <<"t">>}

LocalKeys == {<<>>, <<"i">>, <<"k">>, <<"m">>}

CurrentSnapChoices ==
    {[InstanceName |-> [snap |-> "foo", key |-> <<>>], SnapID |-> <<"i">>,
      Revision |-> 5, TrackingChannel |-> "", Block |-> <<>>, Epoch |-> 0],
     [InstanceName |-> [snap |-> "foo", key |-> <<"k">>], SnapID |-> <<"i">>,
      Revision |-> 5, TrackingChannel |-> "beta", Block |-> <<7>>, Epoch |-> 1],
     [InstanceName |-> [snap |-> "foo", key |-> <<"i">>], SnapID |-> <<"i">>,
      Revision |-> 5, TrackingChannel |-> "", Block |-> <<>>, Epoch |-> 0]}

ActionChoices ==
    {[Action |-> "install", InstanceName |-> [snap |-> "foo", key |-> <<"k">>],
      SnapID |-> <<>>, Channel |-> "stable", Revision |-> 0, Epoch |-> 0],
     [Action |-> "install", InstanceName |-> [snap |-> "foo", key |-> <<>>],
      SnapID |-> <<>>, Channel |-> "beta", Revision |-> 9, Epoch |-> 1],
     [Action |-> "download", InstanceName |-> [snap |-> "foo", key |-> <<>>],
      SnapID |-> <<>>, Channel |-> "stable", Revision |-> 0, Epoch |-> 0],
     [Action |-> "refresh", InstanceName |-> [snap |-> "foo", key |-> <<>>],
      SnapID |-> <<"i">>, Channel |-> "", Revision |-> 0, Epoch |-> 1],
     [Action |-> "refresh", InstanceName |-> [snap |-> "foo", key |-> <<"k">>],
      SnapID |-> <<"i">>, Channel |-> "edge", Revision |-> 0, Epoch |-> 0]}

ListsUpTo(S, n) == UNION {[1..k -> S] : k \in 0..n}

\* an instance-key the request did not send
unknownKey == <<"unknown">>

\* the revisions a store offers: the current one, a blocked one, a new one
OfferedRevisions == {5, 7, 9}

\* the results a store may answer a request with.  Fields the code does not
\* read for a kind of result are left at one value.
ResultChoices(rq) ==
    LET snapKeys   == DOMAIN rq.curSnaps
        actionKeys == (DOMAIN rq.installs) \cup (DOMAIN rq.downloads)
        res(kind, k, name, rev) ==
            [Result |-> kind, InstanceKey |-> k, Name |-> name, Revision |-> rev,
             Code |-> IF kind = "error" THEN "snap-not-found" ELSE ""]
    IN  {res("error", k, name, 0) : k \in actionKeys, name \in {"", "foo"}}
        \cup {res("error", k, "", 0) : k \in (snapKeys \cup {unknownKey}) \ actionKeys}
        \cup {res("refresh", k, "foo", rev) : k \in snapKeys, rev \in OfferedRevisions}
        \cup {res("refresh", unknownKey, "foo", 9)}
        \cup {res("install", k, "foo", 9) : k \in (DOMAIN rq.installs) \cup {unknownKey}}
        \cup {res("download", unknownKey, "foo", 9)}

transportError == [kind |-> "error", results |-> <<>>, errorList |-> <<>>]

badStatus == [kind |-> "status", results |-> <<>>, errorList |-> <<>>]

NoAnswer == [kind |-> "none", results |-> <<>>, errorList |-> <<>>]

\* the answers to one batch: any results, with or without a general error
AnswersBatch(rq) ==
    {transportError, badStatus}
    \cup {[kind |-> "200", results |-> rs, errorList |-> el] :
             rs \in ListsUpTo(ResultChoices(rq), MaxResults),
             el \in {<<>>, <<"api-error">>}}

\* the answers to a batch that may be re-issued: errors of the whole request,
\* the soft-expiry ones among them
AnswersReissued(rq) ==
    {transportError, badStatus}
    \cup {[kind |-> "200", results |-> rs, errorList |-> el] :
             rs \in {<<>>} \cup {<<r>> : r \in {x \in ResultChoices(rq) :
                                                 x.Result = "install"}},
             el \in ListsUpTo({userNeedsRefreshCode, deviceNeedsRefreshCode,
                               "api-error"}, MaxErrorList)}

\* the refresh need SnapAction derives from the other list
needsUserRefreshOf(err) ==
    \E i \in 1..Len(err.Other) : errUserAuthorizationNeedsRefresh(err.Other[i])

needsDeviceRefreshOf(err) ==
    \E i \in 1..Len(err.Other) : errDeviceAuthorizationNeedsRefresh(err.Other[i])

\* "ok && authRefreshes < 2 && len(saErr.Other) > 0"
mayReissue(err, refreshes) ==
    err.kind = "SnapActionError" /\ refreshes < MaxSoftRefreshes /\ Len(err.Other) > 0

reissueNeeded(err, refreshes) ==
    mayReissue(err, refreshes) /\ (needsUserRefreshOf(err) \/ needsDeviceRefreshOf(err))

\* refreshUser reads user.StoreDischarges of an absent user
derefsNilUser(err) == needsUserRefreshOf(err) /\ dauthCtx /\ ~user.present

thisRequest == snapActionRequest(currentSnaps, actions, privacyKey)

\* no SnapAction call runs
IdleSnapAction ==
    /\ saPc = "idle"
    /\ currentSnaps = <<>>
    /\ actions = <<>>
    /\ privacyKey = <<>>
    /\ saRefreshes = 0
    /\ batches = 0
    /\ body = [Context |-> <<>>, Actions |-> <<>>]
    /\ saAnswer = NoAnswer
    /\ sars = <<>>
    /\ saErr = noError
    /\ saResult = "none"
    /\ softRefreshes = [calls |-> 0, last |-> NoRefresh]

\* a call is about to start with lists of at most n current snaps and actions
SnapActionCalled(nSnaps, nActions) ==
    /\ saPc = "call"
    /\ currentSnaps \in ListsUpTo(CurrentSnapChoices, nSnaps)
    /\ actions \in ListsUpTo(ActionChoices, nActions)
    /\ privacyKey \in Salts
    /\ saRefreshes = 0
    /\ batches = 0
    /\ body = [Context |-> <<>>, Actions |-> <<>>]
    /\ saAnswer = NoAnswer
    /\ sars = <<>>
    /\ saErr = noError
    /\ saResult = "none"
    /\ softRefreshes = [calls |-> 0, last |-> NoRefresh]

\* "len(currentSnaps) == 0 && len(actions) == 0": nothing to do
SnapActionNothingToDo ==
    /\ saPc = "call"
    /\ saRefreshes = 0
    /\ Len(currentSnaps) = 0 /\ Len(actions) = 0
    /\ saErr' = nothingToDo
    /\ sars' = <<>>
    /\ saPc' = "done"
    /\ saResult' = "returned"
    /\ UNCHANGED <<currentSnaps, actions, privacyKey, saRefreshes, batches, body, saAnswer,
                   softRefreshes>>
    /\ UNCHANGED authVars
    /\ UNCHANGED notSnapAction

\* snapAction returns an error before it has a request: the context or an
\* action is not valid
BatchNotSent ==
    /\ saPc = "call"
    /\ Len(currentSnaps) + Len(actions) > 0
    /\ thisRequest.err
    /\ actions' = IF contextFails(currentSnaps, privacyKey)
                  THEN actions ELSE actionsAfter(actions)
    /\ saErr' = plainError
    /\ sars' = <<>>
    /\ saPc' = "returned"
    /\ UNCHANGED <<currentSnaps, privacyKey, saRefreshes, batches, body, saAnswer, saResult,
                   softRefreshes>>
    /\ UNCHANGED authVars
    /\ UNCHANGED notSnapAction

\* snapAction hands the marshalled request to the request pipeline
SendBatch ==
    /\ saPc = "call"
    /\ Len(currentSnaps) + Len(actions) > 0
    /\ ~thisRequest.err
    /\ body' = thisRequest.body
    /\ actions' = actionsAfter(actions)
    /\ batches' = batches + 1
    /\ saPc' = "sent"
    /\ UNCHANGED <<currentSnaps, privacyKey, saRefreshes, saAnswer, sars, saErr, saResult,
                   softRefreshes>>
    /\ UNCHANGED authVars
    /\ UNCHANGED notSnapAction

\* the pipeline returns and snapAction files the results.  The maps still
\* point to the caller's actions, as the loop over them left them.
Answered(answers) ==
    /\ saPc = "sent"
    /\ \E ans \in answers :
          LET out == snapActionReturns(thisRequest, actions, ans)
          IN  /\ saAnswer' = ans
              /\ sars' = out.sars
              /\ saErr' = out.err
    /\ saPc' = "returned"
    /\ UNCHANGED <<currentSnaps, actions, privacyKey, saRefreshes, batches, body, saResult,
                   softRefreshes>>
    /\ UNCHANGED authVars
    /\ UNCHANGED notSnapAction

BatchAnswered == Answered(AnswersBatch(thisRequest))

ReissuedBatchAnswered == Answered(AnswersReissued(thisRequest))

\* a soft-expired authorisation: refreshAuth, whose error is only logged,
\* then the loop calls snapAction again
SoftExpiredReissue ==
    /\ saPc = "returned"
    /\ reissueNeeded(saErr, saRefreshes)
    /\ ~derefsNilUser(saErr)
    /\ \E r \in refreshAuth(user, needsUserRefreshOf(saErr), needsDeviceRefreshOf(saErr),
                             dauthCtx, ctxUser, ctxDevice) :
          /\ user' = r.user
          /\ ctxUser' = r.ctxUser
          /\ ctxDevice' = r.ctxDevice
          /\ softRefreshes' = [calls |-> softRefreshes.calls + 1, last |-> r.how]
    /\ saRefreshes' = saRefreshes + 1
    /\ saPc' = "call"
    /\ saAnswer' = NoAnswer
    /\ sars' = <<>>
    /\ saErr' = noError
    /\ UNCHANGED <<currentSnaps, actions, privacyKey, batches, body, saResult, dauthCtx>>
    /\ UNCHANGED notSnapAction

\* a soft-expired user authorisation for a call without a user: refreshAuth
\* calls refreshUser(nil), which reads user.StoreDischarges
SoftExpiredPanics ==
    /\ saPc = "returned"
    /\ reissueNeeded(saErr, saRefreshes)
    /\ derefsNilUser(saErr)
    /\ softRefreshes' = [calls |-> softRefreshes.calls + 1,
                         last |-> [user |-> "panic", device |-> "none"]]
    /\ saPc' = "done"
    /\ saResult' = "panic"
    /\ UNCHANGED <<currentSnaps, actions, privacyKey, saRefreshes, batches, body, saAnswer,
                   sars, saErr>>
    /\ UNCHANGED authVars
    /\ UNCHANGED notSnapAction

\* "return sars, err"
SnapActionReturn ==
    /\ saPc = "returned"
    /\ ~reissueNeeded(saErr, saRefreshes)
    /\ saPc' = "done"
    /\ saResult' = "returned"
    /\ UNCHANGED <<currentSnaps, actions, privacyKey, saRefreshes, batches, body, saAnswer,
                   sars, saErr, softRefreshes>>
    /\ UNCHANGED authVars
    /\ UNCHANGED notSnapAction

\* ------------------------------------------------------------------------
\* The entry of Download: the cache lookup and the delta
\* ------------------------------------------------------------------------

\* most deltas a downloadInfo comes with
MaxDeltas == 2

\* "var defaultSupportedDeltaFormat", the deltaFormat of a Store made from a
\* Config without DeltaFormat
defaultSupportedDeltaFormat == "xdelta3"

\* the formats a delta is offered in
DeltaFormats == {"xdelta3", "bsdiff"}

\* the errors of downloadAndApplyDelta once its file is open
DeltaErrors == {"unsupported format", "auth error", "download error", "source missing",
                "no tool", "tool error", "chmod error", "digest error", "HashError",
                "copy error"}

\* no Download is at its entry; deltas are disabled
IdleDownloadEntry ==
    /\ useDeltasOn = FALSE
    /\ dlDeltas = 0
    /\ deltaTried = FALSE
    /\ deltaRequests = 0
    /\ deltaInfoFormat = defaultSupportedDeltaFormat
    /\ deltaPathExists = FALSE
    /\ deltaErr = "none"

\* the lookup is made and its answer ignored
lookupIgnored(hit) == "delta"

\* "if err := s.cacher.Get(...); err == nil { return nil }"
afterLookup(hit) == IF hit THEN "done" ELSE "delta"

\* the deltas that are tried when any are offered
deltaWantedSome == useDeltasOn /\ dlDeltas >= 1

\* "useDeltas() && len(downloadInfo.Deltas) == 1"
deltaWanted == useDeltasOn /\ dlDeltas = 1

\* s.cacher.Get(downloadInfo.Sha3_384, targetPath) and the return on a hit
DownloadLookup ==
    /\ dpc = "lookup"
    /\ LET hit == cacheHolds(cacheFiles, cacheCap, dlInfo.Sha3_384)
       IN  /\ cacheLast' = [op |-> "Get", key |-> dlInfo.Sha3_384, hit |-> hit,
                            before |-> cacheFiles]
           /\ cacheFiles' = IF hit THEN cacheTouch(cacheFiles, dlInfo.Sha3_384, cacheNow + 1)
                            ELSE cacheFiles
           /\ target' = IF hit
                        THEN [exists |-> TRUE, content |-> cacheFiles[dlInfo.Sha3_384].content]
                        ELSE target
           /\ dpc' = afterLookup(hit)
           /\ dlResult' = IF afterLookup(hit) = "done" THEN "ok" ELSE dlResult
    /\ cacheNow' = cacheNow + 1
    /\ UNCHANGED <<dlConfig, dlOpen, lastAttempt, partial, wpos, resume, attempts, pass, finalErr, clean,
                   interrupted, resumed>>
    /\ UNCHANGED <<cacheCap, dlEntryVars>>
    /\ UNCHANGED besidesDownload

\* no delta is tried: deltas are off, or there is not exactly one
DeltaSkipped ==
    /\ dpc = "delta"
    /\ ~deltaWanted
    /\ dpc' = "start"
    /\ UNCHANGED <<dlConfig, dlOpen, lastAttempt, partial, wpos, resume, attempts, pass, finalErr, target,
                   dlResult, clean, interrupted, resumed>>
    /\ UNCHANGED notDownload

\* os.OpenFile(deltaPath, O_RDWR|O_CREATE|O_TRUNC) fails: downloadAndApplyDelta
\* returns before its deferred function is set up, and Download goes on with
\* the plain download
DeltaOpenFails ==
    /\ dpc = "delta"
    /\ deltaWanted
    /\ deltaTried' = TRUE
    /\ deltaErr' = "open error"
    /\ dpc' = "start"
    /\ UNCHANGED <<dlConfig, dlOpen, lastAttempt, partial, wpos, resume, attempts, pass, finalErr, target,
                   dlResult, clean, interrupted, resumed>>
    /\ UNCHANGED <<useDeltasOn, dlDeltas, deltaRequests, deltaInfoFormat, deltaPathExists>>
    /\ UNCHANGED <<besidesDownload, cacheVars>>

\* downloadAndApplyDelta creates (or truncates) the delta's own file
DeltaOpened ==
    /\ dpc = "delta"
    /\ deltaWanted
    /\ deltaTried' = TRUE
    /\ deltaPathExists' = TRUE
    /\ dpc' = "deltaRun"
    /\ UNCHANGED <<dlConfig, dlOpen, lastAttempt, partial, wpos, resume, attempts, pass, finalErr, target,
                   dlResult, clean, interrupted, resumed>>
    /\ UNCHANGED <<useDeltasOn, dlDeltas, deltaRequests, deltaInfoFormat, deltaErr>>
    /\ UNCHANGED <<besidesDownload, cacheVars>>

\* the deferred function removes the file of a delta that was applied only
deltaPathKeptOnError(err) == err # "none"

\* the deferred function of downloadAndApplyDelta: w.Close() and
\* os.Remove(deltaPath), whatever is returned
deltaPathAfter(err) == FALSE

\* what xdelta3 may write to <targetPath>.partial when the hash of the result
\* is, or is not, the one of the download info
toolOutputs(matching) ==
    {out \in SeqsUpTo(MaxBody) :
        (dlInfo.Sha3_384 = NoHash \/ Sha3(out) = dlInfo.Sha3_384) <=> matching}

\* the errors a delta in format f can end with: downloadDelta refuses a format
\* other than s.deltaFormat before anything else, and a HashError needs a
\* Sha3_384 in the download info
deltaErrorPossible(kind, f) ==
    /\ (kind = "unsupported format") <=> (f # defaultSupportedDeltaFormat)
    /\ kind = "HashError" => dlInfo.Sha3_384 # NoHash

\* the requests made before the error: the format and authAvailable are tested
\* before download()
requestsBefore(kind) == IF kind \in {"unsupported format", "auth error"} THEN 0 ELSE 1

\* <targetPath>.partial after a failed downloadAndApplyDelta: untouched before
\* xdelta3 runs, removed by applyDelta after a failed run and after a hash
\* mismatch, and left as xdelta3 wrote it when Chmod, FileDigest or the
\* Rename and the CopyFile fail
partialAfterDelta(kind, file, out) ==
    IF kind \in {"tool error", "HashError"} THEN [exists |-> FALSE, content |-> <<>>]
    ELSE IF kind \in {"chmod error", "digest error", "copy error"}
         THEN [exists |-> TRUE, content |-> out]
         ELSE file

\* downloadAndApplyDelta succeeds: the delta was downloaded and applied, the
\* hash of the result compared, the result renamed (or, where the rename
\* fails, copied) to targetPath, and Download returns
DeltaApplied ==
    /\ dpc = "deltaRun"
    /\ deltaInfoFormat = defaultSupportedDeltaFormat
    /\ deltaRequests' = deltaRequests + 1
    /\ \E out \in toolOutputs(TRUE), renamed \in BOOLEAN :
          /\ target' = [exists |-> TRUE, content |-> out]
          /\ partial' = IF renamed THEN [exists |-> FALSE, content |-> <<>>]
                        ELSE [exists |-> TRUE, content |-> out]
    /\ clean' = IsPrefix(partial'.content, Artifact)
    /\ deltaPathExists' = deltaPathAfter("none")
    /\ deltaErr' = "none"
    /\ dlResult' = "ok"
    /\ dpc' = "done"
    /\ UNCHANGED <<dlConfig, dlOpen, lastAttempt, wpos, resume, attempts, pass, finalErr, interrupted,
                   resumed>>
    /\ UNCHANGED <<useDeltasOn, dlDeltas, deltaTried, deltaInfoFormat>>
    /\ UNCHANGED <<besidesDownload, cacheVars>>

\* downloadAndApplyDelta fails, in downloadDelta or in applyDelta, and
\* Download goes on with the plain download
DeltaFails ==
    /\ dpc = "deltaRun"
    /\ \E kind \in DeltaErrors :
          /\ deltaErrorPossible(kind, deltaInfoFormat)
          /\ deltaRequests' = deltaRequests + requestsBefore(kind)
          /\ \E out \in IF kind = "HashError" THEN toolOutputs(FALSE)
                        ELSE IF kind = "copy error" THEN toolOutputs(TRUE)
                        ELSE SeqsUpTo(MaxBody) :
                /\ partial' = partialAfterDelta(kind, partial, out)
                /\ target' \in {target} \cup
                       (IF kind = "copy error"
                        THEN {[exists |-> TRUE, content |-> p] :
                                 p \in {q \in SeqsUpTo(MaxBody) : IsPrefix(q, out)}}
                        ELSE {})
          /\ deltaErr' = kind
          /\ deltaPathExists' = deltaPathAfter(kind)
    /\ clean' = IsPrefix(partial'.content, Artifact)
    /\ dpc' = "start"
    /\ UNCHANGED <<dlConfig, dlOpen, lastAttempt, wpos, resume, attempts, pass, finalErr, dlResult,
                   interrupted, resumed>>
    /\ UNCHANGED <<useDeltasOn, dlDeltas, deltaTried, deltaInfoFormat>>
    /\ UNCHANGED <<besidesDownload, cacheVars>>

\* a Download is called on a Store with or without a cache, whose cache
\* directory may hold a file under the hash, with deltas on or off
InitDownloadEntry ==
    /\ dpc = "lookup"
    /\ dlInfo \in {[Size |-> sz, Sha3_384 |-> h] :
                      sz \in {0, Len(Artifact)}, h \in {NoHash, Sha3(Artifact)}}
    /\ leavePartial \in BOOLEAN
    /\ partial \in {[exists |-> Len(c) > 0, content |-> c] : c \in SeqsUpTo(MaxFile)}
    /\ wpos = 0
    /\ resume = 0
    /\ attempts = 0
    /\ pass = 1
    /\ finalErr = "none"
    /\ target = [exists |-> FALSE, content |-> <<>>]
    /\ dlResult = "none"
    /\ clean = IsPrefix(partial.content, Artifact)
    /\ interrupted = FALSE
    /\ resumed = FALSE
    /\ dlOpen = 0
    /\ lastAttempt = NoAttempt
    /\ cacheCap \in 0..1
    /\ cacheFiles \in {noFiles} \cup
           {[k \in {Sha3(Artifact)} |-> [mtime |-> 0, content |-> c]] :
                c \in {Artifact, <<>>}}
    /\ cacheNow = 0
    /\ cacheLast = NoCacheOp
    /\ useDeltasOn \in BOOLEAN
    /\ dlDeltas \in 0..MaxDeltas
    /\ deltaTried = FALSE
    /\ deltaRequests = 0
    /\ deltaInfoFormat \in DeltaFormats
    /\ deltaPathExists = FALSE
    /\ deltaErr = "none"

\* ------------------------------------------------------------------------
\* Store.Find and Store.findV1
\* ------------------------------------------------------------------------

\* the characters Find rejects
Denylist ==
    {"+", "=", "&", "|", ">", "<", "!", "(", ")", "{", "}", "[", "]", "^", "\"", "~",
     "*", "?", ":", "\\", "/"}

\* strings.TrimSpace
RECURSIVE TrimLeft(_)
TrimLeft(s) == IF s # <<>> /\ Head(s) = " " THEN TrimLeft(Tail(s)) ELSE s

RECURSIVE TrimRight(_)
TrimRight(s) ==
    IF s # <<>> /\ s[Len(s)] = " " THEN TrimRight(SubSeq(s, 1, Len(s) - 1)) ELSE s

TrimSpace(s) == TrimRight(TrimLeft(s))

\* strings.ContainsAny
ContainsAny(s, chars) == \E i \in 1..Len(s) : s[i] \in chars

Digits == <<"0", "1", "2", "3", "4", "5", "6", "7", "8", "9">>

IsDigit(c) == \E d \in 1..Len(Digits) : Digits[d] = c

DigitValue(c) == (CHOOSE d \in 1..Len(Digits) : Digits[d] = c) - 1

RECURSIVE DecimalValue(_, _)
DecimalValue(s, acc) ==
    IF s = <<>> THEN acc ELSE DecimalValue(Tail(s), acc * 10 + DigitValue(Head(s)))

\* strconv.Atoi: an optional sign and decimal digits, an error otherwise
Atoi(s) ==
    LET signed == s # <<>> /\ Head(s) \in {"+", "-"}
        digits == IF signed THEN Tail(s) ELSE s
    IN  IF digits = <<>> \/ \E i \in 1..Len(digits) : ~IsDigit(digits[i])
        THEN [ok |-> FALSE, n |-> 0]
        ELSE [ok |-> TRUE,
              n  |-> IF signed /\ Head(s) = "-"
                     THEN 0 - DecimalValue(digits, 0) ELSE DecimalValue(digits, 0)]

\* the store version below which Find falls back to search v1
v2StoreVersion == 20

jsonContentType == "application/json"

halJsonContentType == "application/hal+json"

\* q.Set(k, v)
qSet(q, k, v) == [x \in (DOMAIN q) \cup {k} |-> IF x = k THEN v ELSE q[x]]

noParams == [k \in {} |-> <<>>]

\* a query with a character of the denylist passes
queryAlwaysGood(s) == FALSE

\* "strings.ContainsAny(searchTerm, ...)"
badQuery(s) == ContainsAny(TrimSpace(s.Query), Denylist)

\* every scope is wide
scopeAlwaysValid(s) == FALSE

\* "search.Scope != "" && search.Scope != "wide""
invalidScope(s) == s.Scope # "" /\ s.Scope # "wide"

\* the error Find returns before it has a request, "" when it goes on
findRejection(s, u) ==
    IF s.Private /\ ~u.present THEN "ErrUnauthenticated"
    ELSE IF badQuery(s) THEN "ErrBadQuery"
    ELSE IF invalidScope(s) THEN "ErrInvalidScope"
    ELSE ""

\* the parameters Find and findV1 share, under the names of each
searchParams(s, q0, commonIDName, categoryName) ==
    LET q1 == IF s.Private THEN qSet(q0, "private", "true") ELSE q0
        q2 == IF s.Prefix
              THEN qSet(q1, "name", TrimSpace(s.Query))
              ELSE LET q2a == IF s.CommonID # ""
                              THEN qSet(q1, commonIDName, s.CommonID) ELSE q1
                   IN  IF TrimSpace(s.Query) # <<>>
                       THEN qSet(q2a, "q", TrimSpace(s.Query)) ELSE q2a
    IN  IF s.Category # "" THEN qSet(q2, categoryName, s.Category) ELSE q2

confinement(onClassic) == IF onClassic THEN "strict,classic" ELSE "strict"

\* the query of the v2 find request
findParams(s, onClassic) ==
    LET q0 == qSet(qSet(noParams, "fields", "findFields"), "architecture", "arch")
        q3 == searchParams(s, q0, "common-id", "category")
        q4 == IF s.Scope = "" THEN qSet(q3, "channel", "stable") ELSE q3
    IN  qSet(q4, "confinement", confinement(onClassic))

\* the query of the v1 search request
findV1Params(s, onClassic) ==
    LET q0 == qSet(noParams, "fields", "detailFields")
        q3 == searchParams(s, q0, "common_id", "section")
        q4 == IF s.Scope # "" THEN qSet(q3, "scope", s.Scope) ELSE q3
    IN  qSet(q4, "confinement", confinement(onClassic))

\* any 404 falls back
fallsBackOnAny404(r) == r.status = 404

\* "resp.StatusCode == 404", a version that parses, "ver < 20"
fallsBack(r) ==
    /\ r.status = 404
    /\ Atoi(r.version).ok
    /\ Atoi(r.version).n < v2StoreVersion

\* readResponse decodes the body of a success, and of a failure that is JSON
decodedErrors(r) ==
    r.errors /\ (r.status \in {200, 201} \/ r.contentType = jsonContentType)

\* what Find returns for the response of the v2 endpoint when it does not
\* fall back
findReturns(r) ==
    IF r.status # 200
    THEN IF decodedErrors(r)
         THEN [kind |-> "error", err |-> "store error"]
         ELSE [kind |-> "error", err |-> "respToError"]
    ELSE IF r.contentType # jsonContentType
         THEN [kind |-> "error", err |-> "unexpected content type"]
         ELSE [kind |-> "snaps", err |-> ""]

\* what findV1 returns for the response of the v1 endpoint
findV1Returns(r) ==
    IF r.status # 200
    THEN [kind |-> "error", err |-> "respToError"]
    ELSE IF r.contentType # halJsonContentType
         THEN [kind |-> "error", err |-> "unexpected content type"]
         ELSE [kind |-> "snaps", err |-> ""]

Queries ==
    {<<>>, <<"a">>, <<" ", "a", " ">>, <<"a", "-", "b">>, <<"a", "*">>, <<" ", "?", " ">>}

Searches ==
    {[Query |-> qy, Prefix |-> px, CommonID |-> id, Category |-> cat, Private |-> pv,
      Scope |-> sc] :
        qy \in Queries, px \in BOOLEAN, id \in {"", "org.app"}, cat \in {"", "games"},
        pv \in BOOLEAN, sc \in {"", "wide", "narrow"}}

\* the Snap-Store-Version headers of a response; <<>> when there is none
VersionHeaders ==
    {<<>>, <<"x">>, <<"1", "9">>, <<"2", "0">>, <<"2", "1">>, <<"-", "1">>,
     <<"1", "9", "x">>}

FindResponses ==
    {[status |-> st, version |-> v, contentType |-> ct, errors |-> e] :
        st \in {200, 201, 404, 500}, v \in VersionHeaders,
        ct \in {jsonContentType, halJsonContentType}, e \in BOOLEAN}

NoFindResponse == [status |-> 0, version |-> <<>>, contentType |-> "", errors |-> FALSE]

NoFindQuery == [endpoint |-> "", params |-> noParams]

\* no Find call runs
IdleFind ==
    /\ fPc = "idle"
    /\ search = [Query |-> <<>>, Prefix |-> FALSE, CommonID |-> "", Category |-> "",
                 Private |-> FALSE, Scope |-> ""]
    /\ findCalls = [v2 |-> 0, v1 |-> 0]
    /\ findQuery = NoFindQuery
    /\ findResp = NoFindResponse
    /\ findResult = [kind |-> "none", err |-> ""]

\* Find returns an error before it has built a request
FindRejected ==
    /\ fPc = "call"
    /\ findRejection(search, user) # ""
    /\ findResult' = [kind |-> "error", err |-> findRejection(search, user)]
    /\ fPc' = "done"
    /\ UNCHANGED <<search, findCalls, findQuery, findResp>>
    /\ UNCHANGED notFind

\* the v2 request goes to the request pipeline
FindRequest ==
    /\ fPc = "call"
    /\ findRejection(search, user) = ""
    /\ \E onClassic \in BOOLEAN :
          findQuery' = [endpoint |-> "v2/snaps/find", params |-> findParams(search, onClassic)]
    /\ findCalls' = [findCalls EXCEPT !.v2 = @ + 1]
    /\ fPc' = "v2"
    /\ UNCHANGED <<search, findResp, findResult>>
    /\ UNCHANGED notFind

\* httputil.RetryRequest returns an error: Find returns it
FindRequestFails ==
    /\ fPc = "v2"
    /\ findResult' = [kind |-> "error", err |-> "request error"]
    /\ fPc' = "done"
    /\ UNCHANGED <<search, findCalls, findQuery, findResp>>
    /\ UNCHANGED notFind

\* a response that does not make Find fall back
FindAnswered ==
    /\ fPc = "v2"
    /\ \E r \in FindResponses :
          /\ ~fallsBack(r)
          /\ findResp' = r
          /\ findResult' = findReturns(r)
    /\ fPc' = "done"
    /\ UNCHANGED <<search, findCalls, findQuery>>
    /\ UNCHANGED notFind

\* a 404 of an old store: "return s.findV1(ctx, search, user)", which sends
\* the v1 request
FindFallsBack ==
    /\ fPc = "v2"
    /\ \E r \in FindResponses :
          /\ fallsBack(r)
          /\ findResp' = r
    /\ \E onClassic \in BOOLEAN :
          findQuery' = [endpoint |-> "api/v1/snaps/search",
                        params |-> findV1Params(search, onClassic)]
    /\ findCalls' = [findCalls EXCEPT !.v1 = @ + 1]
    /\ fPc' = "v1"
    /\ UNCHANGED <<search, findResult>>
    /\ UNCHANGED notFind

\* retryRequestDecodeJSON returns an error: findV1 returns it
FindV1RequestFails ==
    /\ fPc = "v1"
    /\ findResult' = [kind |-> "error", err |-> "request error"]
    /\ fPc' = "done"
    /\ UNCHANGED <<search, findCalls, findQuery, findResp>>
    /\ UNCHANGED notFind

FindV1Answered ==
    /\ fPc = "v1"
    /\ \E r \in FindResponses :
          /\ findResp' = r
          /\ findResult' = findV1Returns(r)
    /\ fPc' = "done"
    /\ UNCHANGED <<search, findCalls, findQuery>>
    /\ UNCHANGED notFind

\* ------------------------------------------------------------------------
\* Store.Buy.  Prices are in hundredths; fmt.Sprintf("%.2f") is not modelled.
\* ------------------------------------------------------------------------

BuyOptionsChoices ==
    {[SnapID |-> id, Price |-> pr, Currency |-> cur] :
        id \in {"", "snap-id"}, pr \in {-100, 0, 1, 299}, cur \in {"", "EUR", "USD"}}

NoBuyResponse == [err |-> FALSE, status |-> 0, state |-> "", code |-> ""]

\* what retryRequestDecodeJSON returns: an error, a 2xx response with the
\* decoded order, or another status with the decoded error code
BuyResponses ==
    {[NoBuyResponse EXCEPT !.err = TRUE]}
    \cup {[err |-> FALSE, status |-> st, state |-> state, code |-> ""] :
             st \in {200, 201}, state \in {"", "Complete", "Cancelled", "InProgress"}}
    \cup {[err |-> FALSE, status |-> st, state |-> "", code |-> code] :
             st \in {400, 401, 402, 403, 404, 500},
             code \in {"", "no-payment-methods", "tos-not-accepted"}}

buyFails(err) == [err |-> err, State |-> ""]

\* every order state is a success
buyReturnsAnyState(r) ==
    IF r.err THEN buyFails("request error")
    ELSE [err |-> "", State |-> r.state]

\* the checks before the request
buyRejection(options, userGiven) ==
    IF options.SnapID = "" THEN "cannot buy snap: snap ID missing"
    ELSE IF options.Price <= 0 THEN "cannot buy snap: invalid expected price"
    ELSE IF options.Currency = "" THEN "cannot buy snap: currency missing"
    ELSE IF ~userGiven THEN "ErrUnauthenticated"
    ELSE ""

\* the switch on resp.StatusCode
buyReturns(r) ==
    IF r.err THEN buyFails("request error")
    ELSE IF r.status \in {200, 201}
         THEN IF r.state = "Cancelled"
              THEN buyFails("cannot buy snap: payment cancelled")
              ELSE [err |-> "", State |-> r.state]
    ELSE IF r.status = 400 THEN buyFails("cannot buy snap: bad request")
    ELSE IF r.status = 403
         THEN IF r.code = "no-payment-methods" THEN buyFails("ErrNoPaymentMethods")
              ELSE IF r.code = "tos-not-accepted" THEN buyFails("ErrTOSNotAccepted")
              ELSE buyFails("cannot buy snap: permission denied")
    ELSE IF r.status = 404 THEN buyFails("cannot buy snap: server says not found")
    ELSE IF r.status = 402 THEN buyFails("ErrPaymentDeclined")
    ELSE IF r.status = 401 THEN buyFails("ErrInvalidCredentials")
    ELSE buyFails("respToError")

NoBuyResult == [err |-> "", State |-> "none"]

IdleBuy ==
    /\ buyPc = "done"
    /\ buyOptions = [SnapID |-> "", Price |-> 0, Currency |-> ""]
    /\ buyUser = FALSE
    /\ buyCalls = 0
    /\ buyResp = NoBuyResponse
    /\ buyResult = NoBuyResult

\* Buy returns at one of its checks
BuyRejected ==
    /\ buyPc = "call"
    /\ buyRejection(buyOptions, buyUser) # ""
    /\ buyResult' = buyFails(buyRejection(buyOptions, buyUser))
    /\ buyPc' = "done"
    /\ UNCHANGED <<buyOptions, buyUser, buyCalls, buyResp>>
    /\ UNCHANGED notBuy

\* the order instruction is posted through retryRequestDecodeJSON
BuyRequest ==
    /\ buyPc = "call"
    /\ buyRejection(buyOptions, buyUser) = ""
    /\ buyCalls' = buyCalls + 1
    /\ buyPc' = "sent"
    /\ UNCHANGED <<buyOptions, buyUser, buyResp, buyResult>>
    /\ UNCHANGED notBuy

\* the request failed, or its response is turned into Buy's result
BuyAnswered ==
    /\ buyPc = "sent"
    /\ \E r \in BuyResponses :
          /\ buyResp' = r
          /\ buyResult' = buyReturns(r)
    /\ buyPc' = "done"
    /\ UNCHANGED <<buyOptions, buyUser, buyCalls>>
    /\ UNCHANGED notBuy


\* ------------------------------------------------------------------------
\* asserts.findWildcard(top, descendantWithWildcard, foundCb) on a tree of
\* two levels: directories under top and the entries in them.  Names and
\* patterns are sequences of characters.
\* ------------------------------------------------------------------------

\* the directories a tree may have under top
DirNames == {<<"a">>, <<"a", "b">>}

\* the names an entry of a directory may have
EntryNames == {<<"a", "b">>, <<"c", "b">>}

EntryKinds == {"file", "dir"}

\* every tree: some directories, each with some entries
Trees ==
    {[dirs |-> ds, entries |-> es] :
        ds \in SUBSET DirNames,
        es \in SUBSET [dir : DirNames, name : EntryNames, kind : EntryKinds]}

\* a tree of the file system: an entry lies in a directory of the tree and a
\* name is taken once in a directory
WellFormedTree(t) ==
    /\ \A e \in t.entries : e.dir \in t.dirs
    /\ \A e, f \in t.entries : (e.dir = f.dir /\ e.name = f.name) => e = f

FirstPatterns == {<<"*">>, <<"a", "*">>, <<"a">>, <<"z">>}

LastPatterns == {<<"*">>, <<"*", "b">>, <<"a", "b">>}

\* filepath.Match for patterns of literal characters and "*"
RECURSIVE Match(_, _)
Match(pat, name) ==
    IF pat = <<>> THEN name = <<>>
    ELSE IF Head(pat) = "*"
         THEN Match(Tail(pat), name) \/ (name # <<>> /\ Match(pat, Tail(name)))
         ELSE name # <<>> /\ Head(name) = Head(pat) /\ Match(Tail(pat), Tail(name))

\* filepath.Rel(top, fn)
relpath(e) == <<e.dir, e.name>>

\* the directory is not matched against its pattern
matchesLastOnly(t, pats, e) == e \in t.entries /\ Match(pats[2], e.name)

\* the entry is reached by the descent: its directory matches the first
\* pattern and its name the last
matches(t, pats, e) ==
    e \in t.entries /\ Match(pats[1], e.dir) /\ Match(pats[2], e.name)

\* the matching entries the walk has not come to
toVisit == {e \in fwTree.entries : matches(fwTree, fwPatterns, e)} \ fwSeen

IdleWildcard ==
    /\ fwPc = "done"
    /\ fwTree = [dirs |-> {}, entries |-> {}]
    /\ fwPatterns = <<<<"*">>, <<"*">>>>
    /\ fwCbFails = {}
    /\ fwSeen = {}
    /\ fwCalls = <<>>
    /\ fwResult = "none"

\* a matching regular file: foundCb is invoked with its relative path and
\* returns nil
WildcardFound ==
    /\ fwPc = "walk"
    /\ \E e \in toVisit :
          /\ e.kind = "file"
          /\ relpath(e) \notin fwCbFails
          /\ fwSeen' = fwSeen \cup {e}
          /\ fwCalls' = Append(fwCalls, relpath(e))
    /\ UNCHANGED <<fwPc, fwTree, fwPatterns, fwCbFails, fwResult>>
    /\ UNCHANGED notWildcard

\* foundCb returns an error: findWildcard returns it
WildcardCbFails ==
    /\ fwPc = "walk"
    /\ \E e \in toVisit :
          /\ e.kind = "file"
          /\ relpath(e) \in fwCbFails
          /\ fwSeen' = fwSeen \cup {e}
          /\ fwCalls' = Append(fwCalls, relpath(e))
    /\ fwResult' = "cb error"
    /\ fwPc' = "done"
    /\ UNCHANGED <<fwTree, fwPatterns, fwCbFails>>
    /\ UNCHANGED notWildcard

\* a matching entry of the last level that is not a regular file
WildcardNotRegular ==
    /\ fwPc = "walk"
    /\ \E e \in toVisit :
          /\ e.kind # "file"
          /\ fwSeen' = fwSeen \cup {e}
    /\ fwResult' = "expected a regular file"
    /\ fwPc' = "done"
    /\ UNCHANGED <<fwTree, fwPatterns, fwCbFails, fwCalls>>
    /\ UNCHANGED notWildcard

\* the walk is through
WildcardReturn ==
    /\ fwPc = "walk"
    /\ toVisit = {}
    /\ fwResult' = "nil"
    /\ fwPc' = "done"
    /\ UNCHANGED <<fwTree, fwPatterns, fwCbFails, fwSeen, fwCalls>>
    /\ UNCHANGED notWildcard

\* ------------------------------------------------------------------------
\* Store.EnsureDeviceSession, step by step, while other goroutines may
\* refresh the session of the same device
\* ------------------------------------------------------------------------

\* sessions other goroutines store during one call
MaxPeerRefreshes == 3

\* the device states a call may find
EnsureDevices ==
    {[Serial |-> serial, SessionMacaroon |-> m] :
        serial \in {"", "serial", "serial-2"}, m \in 0..MaxPeerRefreshes}

NoEnsureResult == [err |-> "pending", device |-> NoDevice]

ensureReturns(err, device) ==
    /\ edsResult' = [err |-> err, device |-> device]
    /\ edsPc' = "done"

IdleEnsure ==
    /\ edsPc = "done"
    /\ edsRead = NoDevice
    /\ edsDevice = NoDevice
    /\ edsNet = 0
    /\ edsSession = 0
    /\ edsPeers = 0
    /\ edsResult = NoEnsureResult

\* another goroutine completes a refreshDeviceSession of its own; it needs
\* s.sessionMu, which this call holds from its re-read on
PeerStoresSession ==
    /\ edsPc \in {"call", "lock"}
    /\ dauthCtx
    /\ ctxDevice.Serial # ""
    /\ edsPeers < MaxPeerRefreshes
    /\ ctxDevice' = [ctxDevice EXCEPT !.SessionMacaroon = IssuedSession(@)]
    /\ edsPeers' = edsPeers + 1
    /\ UNCHANGED <<edsPc, edsRead, edsDevice, edsNet, edsSession, edsResult>>
    /\ UNCHANGED notEnsure

\* "if s.dauthCtx == nil"
EnsureNoContext ==
    /\ edsPc = "call"
    /\ ~dauthCtx
    /\ ensureReturns("internal error: no authContext", NoDevice)
    /\ UNCHANGED <<ctxDevice, edsRead, edsDevice, edsNet, edsSession, edsPeers>>
    /\ UNCHANGED notEnsure

\* s.dauthCtx.Device() fails
EnsureDeviceFails ==
    /\ edsPc = "call"
    /\ dauthCtx
    /\ ensureReturns("Device() error", NoDevice)
    /\ UNCHANGED <<ctxDevice, edsRead, edsDevice, edsNet, edsSession, edsPeers>>
    /\ UNCHANGED notEnsure

\* the device has a session macaroon: it is returned
EnsureHasSession ==
    /\ edsPc = "call"
    /\ dauthCtx
    /\ ctxDevice.SessionMacaroon # 0
    /\ edsRead' = ctxDevice
    /\ edsDevice' = ctxDevice
    /\ ensureReturns(errNone, ctxDevice)
    /\ UNCHANGED <<ctxDevice, edsNet, edsSession, edsPeers>>
    /\ UNCHANGED notEnsure

\* no session and no serial
EnsureNoSerial ==
    /\ edsPc = "call"
    /\ dauthCtx
    /\ ctxDevice.SessionMacaroon = 0
    /\ ctxDevice.Serial = ""
    /\ edsRead' = ctxDevice
    /\ edsDevice' = ctxDevice
    /\ ensureReturns(ErrNoSerial, NoDevice)
    /\ UNCHANGED <<ctxDevice, edsNet, edsSession, edsPeers>>
    /\ UNCHANGED notEnsure

\* a serial and no session: s.refreshDeviceSession(device) is called
EnsureCallsRefresh ==
    /\ edsPc = "call"
    /\ dauthCtx
    /\ ctxDevice.SessionMacaroon = 0
    /\ ctxDevice.Serial # ""
    /\ edsRead' = ctxDevice
    /\ edsDevice' = ctxDevice
    /\ edsPc' = "lock"
    /\ UNCHANGED <<ctxDevice, edsNet, edsSession, edsPeers, edsResult>>
    /\ UNCHANGED notEnsure

\* s.sessionMu.Lock(), device1 := Device(), "*device1 != *device": the state
\* has moved on, it is adopted and returned
EnsureAdopts ==
    /\ edsPc = "lock"
    /\ stateAdvanced(ctxDevice, edsDevice)
    /\ edsDevice' = ctxDevice
    /\ ensureReturns(errNone, ctxDevice)
    /\ UNCHANGED <<ctxDevice, edsRead, edsNet, edsSession, edsPeers>>
    /\ UNCHANGED notEnsure

\* the state is as the caller read it: on to the exchange
EnsureRereadSame ==
    /\ edsPc = "lock"
    /\ ~stateAdvanced(ctxDevice, edsDevice)
    /\ edsPc' = "nonce"
    /\ UNCHANGED <<ctxDevice, edsRead, edsDevice, edsNet, edsSession, edsPeers, edsResult>>
    /\ UNCHANGED notEnsure

\* requestStoreDeviceNonce answered
EnsureNonce ==
    /\ edsPc = "nonce"
    /\ edsNet' = edsNet + 1
    /\ edsPc' = "params"
    /\ UNCHANGED <<ctxDevice, edsRead, edsDevice, edsSession, edsPeers, edsResult>>
    /\ UNCHANGED notEnsure

\* DeviceSessionRequestParams(nonce) answered
EnsureParams ==
    /\ edsPc = "params"
    /\ edsPc' = "session"
    /\ UNCHANGED <<ctxDevice, edsRead, edsDevice, edsNet, edsSession, edsPeers, edsResult>>
    /\ UNCHANGED notEnsure

\* requestDeviceSession answered with a new session macaroon
EnsureSession ==
    /\ edsPc = "session"
    /\ edsNet' = edsNet + 1
    /\ edsSession' = IssuedSession(edsDevice.SessionMacaroon)
    /\ edsPc' = "update"
    /\ UNCHANGED <<ctxDevice, edsRead, edsDevice, edsPeers, edsResult>>
    /\ UNCHANGED notEnsure

\* UpdateDeviceAuth(device, session) stored the session, "*device =
\* *curDevice", and the device is returned
EnsureStoresSession ==
    /\ edsPc = "update"
    /\ ctxDevice' = UpdateDeviceAuth(ctxDevice, edsDevice, edsSession)
    /\ edsDevice' = ctxDevice'
    /\ ensureReturns(errNone, ctxDevice')
    /\ UNCHANGED <<edsRead, edsNet, edsSession, edsPeers>>
    /\ UNCHANGED notEnsure

\* the re-read of the device, the nonce request, the session-request
\* parameters, the session request or UpdateDeviceAuth fails (a failed
\* network request was still made)
EnsureStepFails ==
    /\ edsPc \in {"lock", "nonce", "params", "session", "update"}
    /\ edsNet' = IF edsPc \in {"nonce", "session"} THEN edsNet + 1 ELSE edsNet
    /\ ensureReturns(errOther, NoDevice)
    /\ UNCHANGED <<ctxDevice, edsRead, edsDevice, edsSession, edsPeers>>
    /\ UNCHANGED notEnsure

\* ------------------------------------------------------------------------
\* The choice of the download URL
\* ------------------------------------------------------------------------

\* the functions that choose between the two URLs of a download
URLCallers == {"Download", "DownloadStream", "downloadDelta"}

\* the URLs a download info or delta info comes with
DownloadInfos ==
    {[AnonDownloadURL |-> a, DownloadURL |-> d] :
        a \in {"", "http://anon/snap"}, d \in {"", "https://auth/snap"}}

\* nil, a user without store authorisation, a user with it
URLUsers ==
    {NoUser,
     [present |-> TRUE, StoreMacaroon |-> "", StoreDischarges |-> <<>>],
     [present |-> TRUE, StoreMacaroon |-> "root", StoreDischarges |-> <<>>]}

\* s.dauthCtx: nil, one whose Device() fails, one whose device has or has not
\* a session macaroon
URLContexts ==
    {[present |-> FALSE, fails |-> FALSE, SessionMacaroon |-> ""],
     [present |-> TRUE, fails |-> TRUE, SessionMacaroon |-> ""],
     [present |-> TRUE, fails |-> FALSE, SessionMacaroon |-> ""],
     [present |-> TRUE, fails |-> FALSE, SessionMacaroon |-> "session"]}

\* no request is made
NoURL == "no request"

\* authorisation is available when the user has store authorisation
userAuthOnly(u, dctx) == [avail |-> HasStoreAuth(u), err |-> "none"]

\* Store.authAvailable: the user's store authorisation, or else the session
\* macaroon of the device; the error of Device() is returned
authAvailable(u, dctx) ==
    IF HasStoreAuth(u) THEN [avail |-> TRUE, err |-> "none"]
    ELSE IF dctx.present /\ dctx.fails THEN [avail |-> FALSE, err |-> "Device() error"]
    ELSE [avail |-> dctx.present /\ dctx.SessionMacaroon # "", err |-> "none"]

\* "url := info.AnonDownloadURL; if url == "" || authAvail { url = info.DownloadURL }"
selectURL(info, authAvail) ==
    IF info.AnonDownloadURL = "" \/ authAvail THEN info.DownloadURL
    ELSE info.AnonDownloadURL

\* the caller asks authAvailable, returns its error or goes on with the URL
selectsURL(caller) ==
    /\ urlPc = "call"
    /\ urlCaller = caller
    /\ LET a == authAvailable(urlUser, urlDauth)
       IN  /\ urlErr' = a.err
           /\ urlUsed' = IF a.err # "none" THEN NoURL ELSE selectURL(urlInfo, a.avail)
    /\ urlPc' = "done"
    /\ UNCHANGED <<urlCaller, urlInfo, urlUser, urlDauth>>
    /\ UNCHANGED notURL

\* Store.Download
DownloadSelectsURL == selectsURL("Download")

\* Store.DownloadStream, when the snap is not in the cache
DownloadStreamSelectsURL == selectsURL("DownloadStream")

\* Store.downloadDelta, on the delta's info
DownloadDeltaSelectsURL == selectsURL("downloadDelta")

IdleURL ==
    /\ urlPc = "idle"
    /\ urlCaller = "Download"
    /\ urlInfo = [AnonDownloadURL |-> "", DownloadURL |-> ""]
    /\ urlUser = NoUser
    /\ urlDauth = [present |-> FALSE, fails |-> FALSE, SessionMacaroon |-> ""]
    /\ urlUsed = NoURL
    /\ urlErr = "none"

\* ------------------------------------------------------------------------
\* decodeJSONBody
\* ------------------------------------------------------------------------

\* the statuses a response comes with
DecodeStatuses == {200, 201, 202, 204, 304, 400, 404, 500}

\* the bodies a response comes with: none, two JSON documents, and HTML
DecodeBodies == {"", "{\"a\":1}", "{\"a\":2}", "<html>"}

\* the number of bytes of a body
bodyLength(b) ==
    CASE b = "" -> 0
      [] b = "<html>" -> 6
      [] OTHER -> 7

\* resp.ContentLength: the length of the body, or -1 when it is not known
ContentLengths(b) == {-1, bodyLength(b)}

\* a shape nothing was decoded into
Unfilled == [filled |-> FALSE, a |-> 0]

\* json.NewDecoder(resp.Body).Decode(&shape): io.EOF on an empty body, a syntax
\* error on what is not JSON, and the document's value otherwise
jsonDecode(b) ==
    CASE b = "" -> [err |-> "EOF", value |-> Unfilled]
      [] b = "{\"a\":1}" -> [err |-> "none", value |-> [filled |-> TRUE, a |-> 1]]
      [] b = "{\"a\":2}" -> [err |-> "none", value |-> [filled |-> TRUE, a |-> 2]]
      [] OTHER -> [err |-> "invalid character", value |-> Unfilled]

\* every 2xx status counts as a success
okStatus2xx(status) == status >= 200 /\ status < 300

\* "ok := (resp.StatusCode == 200 || resp.StatusCode == 201)"
okStatus(status) == status = 200 \/ status = 201

\* decodeJSONBody(resp, success, failure)
DecodeJSONBody ==
    /\ decPc = "call"
    /\ LET ok == okStatus(decResp.StatusCode)
           given == IF ok THEN decShapes.success ELSE decShapes.failure
           decoded == jsonDecode(decResp.Body)
       IN  IF (~ok /\ decResp.ContentLength = 0) \/ ~given
           THEN /\ decErr' = "none"
                /\ UNCHANGED <<decSuccess, decFailure>>
           ELSE /\ decErr' = decoded.err
                /\ decSuccess' = IF ok THEN decoded.value ELSE decSuccess
                /\ decFailure' = IF ok THEN decFailure ELSE decoded.value
    /\ decPc' = "done"
    /\ UNCHANGED <<decResp, decShapes>>
    /\ UNCHANGED notDecode

IdleDecode ==
    /\ decPc = "idle"
    /\ decResp = [StatusCode |-> 200, ContentLength |-> 0, Body |-> ""]
    /\ decShapes = [success |-> FALSE, failure |-> FALSE]
    /\ decSuccess = Unfilled
    /\ decFailure = Unfilled
    /\ decErr = "none"

\* ------------------------------------------------------------------------
\* ConnectivityCheck
\* ------------------------------------------------------------------------

\* connCheckStrategy: retry.LimitCount(3, ...)
ConnCheckAttempts == 3

APIHost == "api.snapcraft.io"

\* the download URL of the decoded info: none, one without scheme and root,
\* a rooted path, or an absolute URL
NoDownloadURL == [kind |-> "empty", Host |-> ""]

DownloadURLs ==
    {NoDownloadURL,
     [kind |-> "relative", Host |-> ""],
     [kind |-> "path", Host |-> ""],
     [kind |-> "absolute", Host |-> "cdn"],
     [kind |-> "absolute", Host |-> APIHost]}

\* the hosts a redirect may lead to
RedirectHosts == {"edge"}

NoConnResponse == [kind |-> "none", StatusCode |-> 0, json |-> "none",
                   URL |-> NoDownloadURL, Host |-> ""]

ConnStatuses == {200, 201, 404, 503}

\* what an attempt of the info request may end with: an error, or a response
\* whose body, if it is JSON of the expected shape, holds a download URL
InfoOutcomes ==
    {[NoConnResponse EXCEPT !.kind = "error"]}
    \cup {[kind |-> "response", StatusCode |-> st, json |-> j, URL |-> u, Host |-> APIHost] :
             st \in ConnStatuses, j \in {"bad", "ok"}, u \in DownloadURLs}

\* what an attempt of the HEAD request to dlURL may end with: an error, or
\* the response of the host the redirects ended at
HeadOutcomes(dlURL) ==
    {[NoConnResponse EXCEPT !.kind = "error"]}
    \cup (IF dlURL.Host = "" THEN {}
          ELSE {[kind |-> "response", StatusCode |-> st, json |-> "none",
                 URL |-> NoDownloadURL, Host |-> h] :
                   st \in ConnStatuses, h \in {dlURL.Host} \cup RedirectHosts})

IdleConn ==
    /\ ccPc = "idle"
    /\ ccStore = [noCDN |-> TRUE, dauthCtx |-> FALSE, cloudInfoErr |-> FALSE]
    /\ ccAttempt = 0
    /\ ccInfo = NoConnResponse
    /\ ccResp = NoConnResponse
    /\ ccHosts = <<>>
    /\ ccErr = "none"
    /\ ccStatus = <<>>
    /\ ccRet = "none"

\* ------------------------------------------------------------------------
\* The suggested currency
\* ------------------------------------------------------------------------

\* most calls of extractSuggestedCurrency and SuggestedCurrency together
MaxCurrencyOps == 4

\* goroutines that use the suggested currency
NumCurrencyGoroutines == 2

CurrencyGoroutines == 1..NumCurrencyGoroutines

\* X-Suggested-Currency of a response, "" when the header is absent
CurrencyHeaders == {"", "EUR", "GBP"}

IdleCurrency ==
    /\ mu = 0
    /\ suggestedCurrency = ""
    /\ scPc = [g \in CurrencyGoroutines |-> "idle"]
    /\ scHeader = [g \in CurrencyGoroutines |-> ""]
    /\ scRet = [g \in CurrencyGoroutines |-> "none"]
    /\ scReadAt = [g \in CurrencyGoroutines |-> 0]
    /\ scRecorded = <<>>
    /\ scOps = 0

IdleTail == IdleConn /\ IdleCurrency

LaterIdle == IdleBuy /\ IdleWildcard /\ IdleEnsure /\ IdleURL /\ IdleDecode /\ IdleTail

\* ------------------------------------------------------------------------
\* Initial states of a doRequest call
\* ------------------------------------------------------------------------
Devices ==
    {[Serial |-> "", SessionMacaroon |-> 0],
     [Serial |-> "serial", SessionMacaroon |-> 0],
     [Serial |-> "serial", SessionMacaroon |-> 1]}

DischargeTokens == {<<UbuntuoneLocation, 0>>, <<"other", 0>>, <<"bad", 0>>}

DischargeLists == UNION {[1..n -> DischargeTokens] : n \in 0..MaxDischarges}

Users ==
    {NoUser}
    \cup {[present |-> TRUE, StoreMacaroon |-> m, StoreDischarges |-> <<>>] :
              m \in {"", "bad-root"}}
    \cup {[present |-> TRUE, StoreMacaroon |-> "root", StoreDischarges |-> ds] :
              ds \in DischargeLists}

\* the user state the AuthContext holds: the caller's, or one whose
\* discharges another client of the state has refreshed meanwhile
StoredUsers(u) ==
    {u} \cup {[u EXCEPT !.StoreDischarges = rd.discharges] :
                  rd \in {x \in refreshDischarges(u) : x.ok}}

\* request descriptions after the ones the store builds: a download (no
\* Accept, a Range), a snap action (JSON both ways), a plain query
RequestShapes ==
    {[Accept |-> "", ContentType |-> "", ClientUserAgent |-> "",
      ExtraHeaders |-> [k \in {"Range"} |-> "bytes=1-"]],
     [Accept |-> "application/json", ContentType |-> "application/json",
      ClientUserAgent |-> "snap",
      ExtraHeaders |-> [k \in {"Snap-Refresh-Reason"} |-> "scheduled"]],
     [Accept |-> "application/hal+json", ContentType |-> "", ClientUserAgent |-> "",
      ExtraHeaders |-> NoHeaders]}

RequestOptions ==
    {[APILevel |-> lvl, DeviceAuthNeed |-> need, Accept |-> sh.Accept,
      ContentType |-> sh.ContentType, ClientUserAgent |-> sh.ClientUserAgent,
      ExtraHeaders |-> sh.ExtraHeaders] :
        lvl \in APILevels, need \in {deviceAuthPreferred, deviceAuthCustomStoreOnly},
        sh \in RequestShapes}

InitPipeline ==
    /\ dauthCtx \in BOOLEAN
    /\ fallbackStoreID \in {"", "fallback-store"}
    /\ ctxStoreID \in (IF dauthCtx THEN {"err", "fallback", "device-store"} ELSE {"err"})
    /\ ctxDevice \in (IF dauthCtx THEN Devices ELSE {[Serial |-> "", SessionMacaroon |-> 0]})
    /\ user \in Users
    /\ ctxUser \in (IF dauthCtx THEN StoredUsers(user) ELSE {user})
    /\ reqOptions \in RequestOptions
    /\ pc = "newRequest"
    /\ authRefreshes = 0
    /\ req = NoHeaders
    /\ resp = NoResp
    /\ first = NoResp
    /\ unauthorized = 0
    /\ openBodies = 0
    /\ result = [kind |-> "none", resp |-> NoResp]
    /\ sent = 0
    /\ userRefreshes = 0
    /\ deviceRefreshes = 0
    /\ last = NoRefresh

\* every operation but the request pipeline at rest
OthersIdle == IdleSnapAction /\ IdleFind /\ IdleCache /\ IdleDownloadEntry /\ LaterIdle

Init == InitPipeline /\ IdleSession /\ IdleDownload /\ OthersIdle

\* no request runs: a Store with an AuthContext, an anonymous caller
IdlePipeline ==
    /\ dauthCtx = TRUE
    /\ fallbackStoreID = ""
    /\ ctxStoreID = "err"
    /\ user = NoUser
    /\ ctxUser = NoUser
    /\ reqOptions \in {o \in RequestOptions : o.APILevel = apiV1Endps
                            /\ o.DeviceAuthNeed = deviceAuthPreferred /\ o.Accept = ""}
    /\ pc = "done"
    /\ authRefreshes = 0
    /\ req = NoHeaders
    /\ resp = NoResp
    /\ first = NoResp
    /\ unauthorized = 0
    /\ openBodies = 0
    /\ result = [kind |-> "none", resp |-> NoResp]
    /\ sent = 0
    /\ userRefreshes = 0
    /\ deviceRefreshes = 0
    /\ last = NoRefresh

\* goroutines about to refresh the session of a device that has a serial
InitSession ==
    /\ IdlePipeline
    /\ ctxDevice \in {d \in Devices : d.Serial # ""}
    /\ IdleSession
    /\ LaterIdle
    /\ IdleDownload
    /\ OthersIdle

NextSession ==
    \E g \in Goroutines :
        \/ CallerReadsDevice(g)
        \/ Lock(g)
        \/ RereadAdopt(g)
        \/ RereadSame(g)
        \/ RequestNonce(g)
        \/ SessionRequestParams(g)
        \/ RequestSession(g)
        \/ StoreSession(g)
        \/ SessionStepFails(g)

SpecSession == InitSession /\ [][NextSession]_vars

\* one Download call on a Store whose AuthContext holds a device session
InitDownloadSpec ==
    /\ IdlePipeline
    /\ ctxDevice = [Serial |-> "serial", SessionMacaroon |-> 1]
    /\ IdleSession
    /\ LaterIdle
    /\ InitDownload
    /\ IdleSnapAction
    /\ IdleFind
    /\ IdleDownloadEntry
    /\ cacheCap = 1
    /\ cacheFiles = noFiles
    /\ cacheNow = 0
    /\ cacheLast = NoCacheOp

NextDownload ==
    \/ DownloadOpen
    \/ DownloadOpenComplete
    \/ AttemptCancelled
    \/ AttemptLeavesBody
    \/ AttemptRequestFails
    \/ AttemptRetryableStatus
    \/ AttemptBadStatus
    \/ AttemptCopyInterrupted
    \/ AttemptCopyComplete
    \/ HashRetry
    \/ DownloadFails
    \/ DownloadFinish
    \/ DownloadAuthFails
    \/ DownloadCheckFails
    \/ HashRetryFails
    \/ DownloadRenameFails
    \/ DownloadSyncFails

SpecDownload == InitDownloadSpec /\ [][NextDownload]_vars

Next ==
    \/ BuildRequest
    \/ BuildRequestFails
    \/ ClientDo
    \/ ClientDoFails
    \/ RefreshAndRetry
    \/ RefreshFails
    \/ ReturnResponse

Spec == Init /\ [][Next]_vars

\* the request pipeline at rest while another operation of the Store runs
PipelineAtRest ==
    /\ fallbackStoreID = ""
    /\ ctxStoreID = "err"
    /\ reqOptions \in {o \in RequestOptions : o.APILevel = apiV2Endps
                            /\ o.DeviceAuthNeed = deviceAuthPreferred
                            /\ o.Accept = "application/json"}
    /\ pc = "done"
    /\ authRefreshes = 0
    /\ req = NoHeaders
    /\ resp = NoResp
    /\ first = NoResp
    /\ unauthorized = 0
    /\ openBodies = 0
    /\ result = [kind |-> "none", resp |-> NoResp]
    /\ sent = 0
    /\ userRefreshes = 0
    /\ deviceRefreshes = 0
    /\ last = NoRefresh

\* the callers of SnapAction: anonymous, or logged in with a discharge that
\* can be refreshed
SnapActionUsers ==
    {NoUser,
     [present |-> TRUE, StoreMacaroon |-> "root",
      StoreDischarges |-> <<<<UbuntuoneLocation, 0>>>>]}

\* one SnapAction call, with or without an AuthContext
InitSnapAction ==
    /\ PipelineAtRest
    /\ dauthCtx \in BOOLEAN
    /\ user \in SnapActionUsers
    /\ ctxUser = user
    /\ ctxDevice = [Serial |-> "serial", SessionMacaroon |-> 1]
    /\ IdleSession
    /\ LaterIdle
    /\ IdleDownload
    /\ IdleFind
    /\ IdleCache
    /\ IdleDownloadEntry
    /\ SnapActionCalled(MaxReissuedLen, MaxReissuedLen)

NextSnapAction ==
    \/ SnapActionNothingToDo
    \/ BatchNotSent
    \/ SendBatch
    \/ ReissuedBatchAnswered
    \/ SoftExpiredReissue
    \/ SoftExpiredPanics
    \/ SnapActionReturn

SpecSnapAction == InitSnapAction /\ [][NextSnapAction]_vars

\* one snapAction call and everything a store may answer
InitBatch ==
    /\ IdlePipeline
    /\ ctxDevice = [Serial |-> "serial", SessionMacaroon |-> 1]
    /\ IdleSession
    /\ LaterIdle
    /\ IdleDownload
    /\ IdleFind
    /\ IdleCache
    /\ IdleDownloadEntry
    /\ SnapActionCalled(MaxSnaps, MaxActions)

NextBatch ==
    \/ BatchNotSent
    \/ SendBatch
    \/ BatchAnswered

SpecBatch == InitBatch /\ [][NextBatch]_vars

\* one Find call by an anonymous or a logged-in caller
InitFind ==
    /\ PipelineAtRest
    /\ dauthCtx = TRUE
    /\ user \in SnapActionUsers
    /\ ctxUser = user
    /\ ctxDevice = [Serial |-> "serial", SessionMacaroon |-> 1]
    /\ IdleSession
    /\ LaterIdle
    /\ IdleDownload
    /\ IdleSnapAction
    /\ IdleCache
    /\ IdleDownloadEntry
    /\ fPc = "call"
    /\ search \in Searches
    /\ findCalls = [v2 |-> 0, v1 |-> 0]
    /\ findQuery = NoFindQuery
    /\ findResp = NoFindResponse
    /\ findResult = [kind |-> "none", err |-> ""]

NextFind ==
    \/ FindRejected
    \/ FindRequest
    \/ FindRequestFails
    \/ FindAnswered
    \/ FindFallsBack
    \/ FindV1RequestFails
    \/ FindV1Answered

SpecFind == InitFind /\ [][NextFind]_vars

\* a Store whose cache directory is empty, used through its cache operations
InitCache ==
    /\ IdlePipeline
    /\ ctxDevice = [Serial |-> "serial", SessionMacaroon |-> 1]
    /\ IdleSession
    /\ LaterIdle
    /\ IdleDownload
    /\ IdleSnapAction
    /\ IdleFind
    /\ IdleDownloadEntry
    /\ IdleCache

NextCache ==
    \/ SetCacheDownloads
    \/ CacheGet
    \/ CachePut
    \/ CacheGetPath

SpecCache == InitCache /\ [][NextCache]_vars

\* Download from its entry to the opening of the partial file
InitDownloadEntrySpec ==
    /\ IdlePipeline
    /\ ctxDevice = [Serial |-> "serial", SessionMacaroon |-> 1]
    /\ IdleSession
    /\ LaterIdle
    /\ IdleSnapAction
    /\ IdleFind
    /\ InitDownloadEntry

NextDownloadEntry ==
    \/ DownloadLookup
    \/ DeltaSkipped
    \/ DeltaOpenFails
    \/ DeltaOpened
    \/ DeltaApplied
    \/ DeltaFails
    \/ DownloadOpen
    \/ DownloadOpenComplete

SpecDownloadEntry == InitDownloadEntrySpec /\ [][NextDownloadEntry]_vars


\* one Buy call
InitBuy ==
    /\ IdlePipeline
    /\ ctxDevice = [Serial |-> "serial", SessionMacaroon |-> 1]
    /\ IdleSession
    /\ IdleDownload
    /\ IdleSnapAction /\ IdleFind /\ IdleCache /\ IdleDownloadEntry
    /\ IdleWildcard /\ IdleEnsure /\ IdleURL /\ IdleDecode /\ IdleTail
    /\ buyPc = "call"
    /\ buyOptions \in BuyOptionsChoices
    /\ buyUser \in BOOLEAN
    /\ buyCalls = 0
    /\ buyResp = NoBuyResponse
    /\ buyResult = NoBuyResult

NextBuy ==
    \/ BuyRejected
    \/ BuyRequest
    \/ BuyAnswered

SpecBuy == InitBuy /\ [][NextBuy]_vars

\* one findWildcard call on a tree, with a callback that fails for no path,
\* for one path or for every path
InitWildcard ==
    /\ IdlePipeline
    /\ ctxDevice = [Serial |-> "serial", SessionMacaroon |-> 1]
    /\ IdleSession
    /\ IdleDownload
    /\ IdleSnapAction /\ IdleFind /\ IdleCache /\ IdleDownloadEntry
    /\ IdleBuy /\ IdleEnsure /\ IdleURL /\ IdleDecode /\ IdleTail
    /\ fwPc = "walk"
    /\ fwTree \in {t \in Trees : WellFormedTree(t)}
    /\ fwPatterns \in {<<p1, p2>> : p1 \in FirstPatterns, p2 \in LastPatterns}
    /\ fwCbFails \in {{}, {<<<<"a">>, <<"a", "b">>>>}, DirNames \X EntryNames}
    /\ fwSeen = {}
    /\ fwCalls = <<>>
    /\ fwResult = "none"

NextWildcard ==
    \/ WildcardFound
    \/ WildcardCbFails
    \/ WildcardNotRegular
    \/ WildcardReturn

SpecWildcard == InitWildcard /\ [][NextWildcard]_vars

\* one EnsureDeviceSession call on a Store with or without an AuthContext
InitEnsure ==
    /\ PipelineAtRest
    /\ dauthCtx \in BOOLEAN
    /\ user = NoUser
    /\ ctxUser = NoUser
    /\ ctxDevice \in (IF dauthCtx THEN EnsureDevices ELSE {NoDevice})
    /\ IdleSession
    /\ IdleDownload
    /\ IdleSnapAction /\ IdleFind /\ IdleCache /\ IdleDownloadEntry
    /\ IdleBuy /\ IdleWildcard /\ IdleURL /\ IdleDecode /\ IdleTail
    /\ edsPc = "call"
    /\ edsRead = NoDevice
    /\ edsDevice = NoDevice
    /\ edsNet = 0
    /\ edsSession = 0
    /\ edsPeers = 0
    /\ edsResult = NoEnsureResult

NextEnsure ==
    \/ PeerStoresSession
    \/ EnsureNoContext
    \/ EnsureDeviceFails
    \/ EnsureHasSession
    \/ EnsureNoSerial
    \/ EnsureCallsRefresh
    \/ EnsureAdopts
    \/ EnsureRereadSame
    \/ EnsureNonce
    \/ EnsureParams
    \/ EnsureSession
    \/ EnsureStoresSession
    \/ EnsureStepFails

SpecEnsure == InitEnsure /\ [][NextEnsure]_vars

\* the operations before the choice of the URL and the decoding are at rest
BeforeLastIdle ==
    /\ IdlePipeline
    /\ ctxDevice = [Serial |-> "serial", SessionMacaroon |-> 1]
    /\ IdleSession
    /\ IdleDownload
    /\ IdleSnapAction /\ IdleFind /\ IdleCache /\ IdleDownloadEntry
    /\ IdleBuy /\ IdleWildcard /\ IdleEnsure

\* one of the three callers is about to choose its URL
InitURL ==
    /\ BeforeLastIdle
    /\ IdleDecode /\ IdleTail
    /\ urlPc = "call"
    /\ urlCaller \in URLCallers
    /\ urlInfo \in DownloadInfos
    /\ urlUser \in URLUsers
    /\ urlDauth \in URLContexts
    /\ urlUsed = NoURL
    /\ urlErr = "none"

NextURL ==
    \/ DownloadSelectsURL
    \/ DownloadStreamSelectsURL
    \/ DownloadDeltaSelectsURL

SpecURL == InitURL /\ [][NextURL]_vars

\* decodeJSONBody is called on a response, with or without each shape
InitDecode ==
    /\ BeforeLastIdle
    /\ IdleURL /\ IdleTail
    /\ decPc = "call"
    /\ decResp \in {[StatusCode |-> st, ContentLength |-> cl, Body |-> b] :
                       st \in DecodeStatuses, b \in DecodeBodies,
                       cl \in UNION {ContentLengths(d) : d \in DecodeBodies}}
    /\ decResp.ContentLength \in ContentLengths(decResp.Body)
    /\ decShapes \in [success : BOOLEAN, failure : BOOLEAN]
    /\ decSuccess = Unfilled
    /\ decFailure = Unfilled
    /\ decErr = "none"

NextDecode == DecodeJSONBody

SpecDecode == InitDecode /\ [][NextDecode]_vars

\* ------------------------------------------------------------------------
\* Claims about Download (SpecDownload)
\* ------------------------------------------------------------------------

\* C1: hash invariant.  Whenever Download returns success, whatever the
\* partial file held before and whatever the server answered, the content
\* left at targetPath hashes to downloadInfo.Sha3_384.
C1_HashInvariant ==
    (dlResult = "ok" /\ dlInfo.Sha3_384 # NoHash)
        => Sha3(target.content) = dlInfo.Sha3_384

\* C2: resume correctness.  When the partial file began as a prefix of the
\* artifact and the server serves the artifact (the whole of it, or its tail
\* from the requested offset), a successful Download leaves exactly the bytes
\* of the artifact at targetPath, however often the copy was cut and resumed,
\* with or without a hash to check against.
C2_ResumeCorrect ==
    (dlResult = "ok" /\ clean) => target.content = Artifact

\* a copy was cut after some bytes, a later attempt resumed with a Range and
\* a 206 completed the file, with no hash to catch a mistake
C2_Witness ==
    /\ dlResult = "ok"
    /\ clean
    /\ interrupted
    /\ resumed
    /\ dlInfo.Sha3_384 = NoHash
    /\ target.content = Artifact

\* ------------------------------------------------------------------------
\* Claims about the request pipeline (Spec)
\* ------------------------------------------------------------------------

\* C3 as stated: for one logical request no more than four HTTP requests are
\* ever sent.
C3_AtMostFourRequests == sent <= MaxAuthRefreshes

\* C3, amended: doRequest refreshes at most four times, so at most five HTTP
\* requests are sent for one logical request; a response that arrives once
\* four refreshes are used up is returned to the caller as it is, with no
\* further refresh.
C3_RefreshLimit ==
    /\ [](authRefreshes <= MaxAuthRefreshes /\ sent <= MaxAuthRefreshes + 1)
    /\ [][(pc = "response" /\ authRefreshes = MaxAuthRefreshes)
            => /\ pc' = "done"
               /\ result' = [kind |-> "response", resp |-> resp]
               /\ UNCHANGED <<user, ctxUser, ctxDevice, sent>>]_vars

\* the fifth request was answered 401 with both hints and that response is
\* what the caller got
C3_Witness ==
    /\ pc = "done"
    /\ sent = MaxAuthRefreshes + 1
    /\ unauthorized = MaxAuthRefreshes + 1
    /\ result = [kind |-> "response", resp |-> [status |-> 401, hints |-> AuthHints]]

\* the call is over and the only 401 it received carried both hints
Single401WithBothHints ==
    /\ pc = "done"
    /\ first = [status |-> 401, hints |-> AuthHints]
    /\ unauthorized = 1

\* C4 as stated, read for the calls that return a response: a single 401
\* with both hints causes exactly one user refresh, exactly one
\* device-session refresh and exactly one resend.
C4_OneOfEach ==
    (Single401WithBothHints /\ result.kind = "response")
        => userRefreshes = 1 /\ deviceRefreshes = 1 /\ sent = 2

\* C4, amended: a single 401 with both hints causes exactly one user refresh
\* when a user is present and none for an anonymous caller; exactly one
\* device-session refresh unless the user refresh failed; and, when no
\* refresh failed, one rebuilt request that is sent exactly once (not at all
\* if rebuilding it fails).  A failed refresh ends the call with its error
\* and nothing is resent.
C4_RefreshOnce ==
    Single401WithBothHints
        => /\ userRefreshes = (IF user.present THEN 1 ELSE 0)
           /\ deviceRefreshes = (IF last.user = "failed" THEN 0 ELSE 1)
           /\ (last.user = "failed" \/ last.device = "failed")
                 => (sent = 1 /\ authRefreshes = 0 /\ result.kind = "error")
           /\ (last.user # "failed" /\ last.device = "ok")
                 => /\ authRefreshes = 1
                    /\ sent <= 2
                    /\ sent = 1 => (req = NoHeaders /\ result.kind = "error")

\* both refreshes succeeded and the resent request was answered 200
C4_Witness ==
    /\ Single401WithBothHints
    /\ last = [user |-> "ok", device |-> "ok"]
    /\ userRefreshes = 1
    /\ deviceRefreshes = 1
    /\ sent = 2
    /\ result = [kind |-> "response", resp |-> [status |-> 200, hints |-> {}]]

\* first response 401 with needs_refresh=1, the user refresh succeeded, second
\* response 200
RefreshDance ==
    /\ pc = "done"
    /\ first.status = 401
    /\ "needs_refresh=1" \in first.hints
    /\ last.user = "ok"
    /\ unauthorized = 1
    /\ sent = 2
    /\ resp.status = 200

\* C5: after the refresh dance the call returns the 200 response, and the
\* caller's user value is the state UpdateUserAuth returned (the one the
\* AuthContext now holds), whose SSO discharges are refreshed ones.
C5_RefreshDance ==
    RefreshDance
        => /\ result = [kind |-> "response", resp |-> resp]
           /\ user = ctxUser
           /\ \A i \in 1..Len(user.StoreDischarges) :
                 Location(user.StoreDischarges[i]) = UbuntuoneLocation
                     => user.StoreDischarges[i][2] >= 1

\* the dance happened for a user who carries an SSO discharge
C5_Witness ==
    /\ RefreshDance
    /\ result.kind = "response"
    /\ \E i \in 1..Len(user.StoreDischarges) :
          user.StoreDischarges[i] = <<UbuntuoneLocation, 1>>

deviceAuthHeader == hdrSnapDeviceAuthorization[reqOptions.APILevel + 1]

\* an AuthContext is present and the request tolerates device auth or the
\* store is a custom one (a store id is known)
deviceAuthWanted ==
    /\ dauthCtx
    /\ \/ reqOptions.DeviceAuthNeed # deviceAuthCustomStoreOnly
       \/ StoreIDFor(dauthCtx, fallbackStoreID, ctxStoreID) # ""

\* C8 as stated: the device authorization header is attached iff an
\* AuthContext is present and the request tolerates device auth or the store
\* is custom.
C8_DeviceAuthIff ==
    pc = "send" => (HasHeader(req, deviceAuthHeader) <=> deviceAuthWanted)

\* C8, amended: the header is attached iff an AuthContext is present, the
\* request tolerates device auth or the store is custom, and the device has a
\* serial or a session; a device without a serial gets its request sent
\* without the header.  When attached, the header carries the session the
\* AuthContext holds, under the name of the request's API level only.
C8_DeviceAuth ==
    pc = "send"
        => /\ HasHeader(req, deviceAuthHeader)
                <=> /\ deviceAuthWanted
                    /\ ~(ctxDevice.Serial = "" /\ ctxDevice.SessionMacaroon = 0)
           /\ HasHeader(req, deviceAuthHeader)
                => /\ ctxDevice.SessionMacaroon # 0
                   /\ req[deviceAuthHeader] = <<"Macaroon root", ctxDevice.SessionMacaroon>>
           /\ \A lvl \in APILevels \ {reqOptions.APILevel} :
                 ~HasHeader(req, hdrSnapDeviceAuthorization[lvl + 1])

\* a request limited to custom stores carries the header because a store id
\* is known
C8_Witness ==
    /\ pc = "send"
    /\ reqOptions.DeviceAuthNeed = deviceAuthCustomStoreOnly
    /\ HasHeader(req, deviceAuthHeader)

\* C9 as stated: the Authorization header is attached iff the user has store
\* credentials.
C9_UserAuthIff ==
    pc = "send" => (HasHeader(req, "Authorization") <=> HasStoreAuth(user))

\* C9, amended: the Authorization header is attached iff the user has store
\* credentials whose root macaroon and discharges all deserialize; an
\* anonymous user or one without a store macaroon never gets it.
C9_UserAuth ==
    pc = "send"
        => /\ HasHeader(req, "Authorization")
                <=> /\ HasStoreAuth(user)
                    /\ RootDeserializes(user.StoreMacaroon)
                    /\ \A i \in 1..Len(user.StoreDischarges) :
                          DischargeDeserializes(user.StoreDischarges[i])
           /\ HasHeader(req, "Authorization")
                => /\ req["Authorization"].root = user.StoreMacaroon
                   /\ Len(req["Authorization"].discharges) = Len(user.StoreDischarges)

\* a request of a logged-in user carries the header with a bound discharge
C9_Witness ==
    /\ pc = "send"
    /\ HasHeader(req, "Authorization")
    /\ Len(user.StoreDischarges) > 0

\* C10: every request that is built carries User-Agent, Accept, the
\* architecture, series and classic headers under the names of its API
\* level, and Snap-Device-Capabilities: default-tracks; it carries
\* X-Ubuntu-Wire-Protocol: 1 iff it is a v1 request.
C10_MandatoryHeaders ==
    pc = "send"
        => /\ {"User-Agent", "Accept", "Snap-Device-Capabilities"} \subseteq DOMAIN req
           /\ req["Snap-Device-Capabilities"] = "default-tracks"
           /\ reqOptions.APILevel = apiV1Endps
                => {"X-Ubuntu-Architecture", "X-Ubuntu-Series", "X-Ubuntu-Classic"}
                       \subseteq DOMAIN req
           /\ reqOptions.APILevel = apiV2Endps
                => {"Snap-Device-Architecture", "Snap-Device-Series", "Snap-Classic"}
                       \subseteq DOMAIN req
           /\ HasHeader(req, "X-Ubuntu-Wire-Protocol") <=> reqOptions.APILevel = apiV1Endps
           /\ HasHeader(req, "X-Ubuntu-Wire-Protocol")
                => req["X-Ubuntu-Wire-Protocol"] = "1"

\* a v2 request with extra headers was built, without the wire protocol one
C10_Witness ==
    /\ pc = "send"
    /\ reqOptions.APILevel = apiV2Endps
    /\ HasHeader(req, "Snap-Refresh-Reason")
    /\ ~HasHeader(req, "X-Ubuntu-Wire-Protocol")

\* ------------------------------------------------------------------------
\* Claims about the device session (SpecSession)
\* ------------------------------------------------------------------------

\* the goroutines that called after reading the device state d
Readers(d) == {g \in Goroutines : gpc[g] # "idle" /\ gread[g] = d}

InExchange(g) == gpc[g] \in {"nonce", "params", "session", "update"}

\* C7 as stated: of the callers that read the same device state, at most one
\* performs the nonce + session exchange; every other one returns without
\* issuing any network call.
C7_OneExchange ==
    \A g, h \in Goroutines :
        (g # h /\ gpc[g] # "idle" /\ gpc[h] # "idle" /\ gread[g] = gread[h])
            => ~(gnet[g] > 0 /\ gnet[h] > 0)

\* C7, amended: the exchange is made under sessionMu and only while the
\* device state is still the one the caller read; of the callers that read
\* the same state at most one gets a session stored; a caller that finds the
\* state advanced adopts it and returns without having issued any network
\* call.  (Callers whose exchange failed have issued theirs.)
C7_SerializedRefresh ==
    /\ \A g \in Goroutines :
          /\ InExchange(g) => (sessionMu = g /\ ctxDevice = gdevice[g]
                                 /\ gdevice[g] = gread[g])
          /\ gout[g] = "adopted"
                => (gnet[g] = 0 /\ gdevice[g] # gread[g])
          /\ gout[g] = "refreshed"
                => gdevice[g].SessionMacaroon # gread[g].SessionMacaroon
          /\ gpc[g] \in {"idle", "lock"} => gnet[g] = 0
    /\ \A g, h \in Goroutines :
          (g # h /\ gpc[g] # "idle" /\ gpc[h] # "idle" /\ gread[g] = gread[h])
              => ~(gout[g] = "refreshed" /\ gout[h] = "refreshed")

\* all goroutines read the same state; one exchanged, the others adopted
C7_Witness ==
    \E g \in Goroutines :
        /\ gout[g] = "refreshed"
        /\ gnet[g] = 2
        /\ \A h \in Goroutines \ {g} :
              gread[h] = gread[g] /\ gout[h] = "adopted" /\ gnet[h] = 0

\* ------------------------------------------------------------------------
\* SnapAction: the soft-expiry loop
\* ------------------------------------------------------------------------

\* a sentinel of a soft-expired authorisation is in the other list
hasSentinel(err) == needsUserRefreshOf(err) \/ needsDeviceRefreshOf(err)

\* C11, the count: a SnapAction call hands at most three batches to the request
\* pipeline, one more than the refreshes it made, and it makes at most two
C11_AtMostThreeBatches ==
    /\ saRefreshes <= MaxSoftRefreshes
    /\ batches <= saRefreshes + 1
    /\ softRefreshes.calls = saRefreshes + (IF saResult = "panic" THEN 1 ELSE 0)

\* C11, the trigger: the batch is issued again only after an aggregate error
\* whose other list holds a sentinel, and after a refreshAuth call for the
\* credentials the sentinels name, whether that call succeeded or not
C11_ReissueOnlyOnSentinel ==
    [][saRefreshes' # saRefreshes =>
          /\ saErr.kind = "SnapActionError"
          /\ hasSentinel(saErr)
          /\ saPc' = "call"
          /\ (softRefreshes'.last.user # "none") = needsUserRefreshOf(saErr)
          /\ softRefreshes'.last.device # "none" => needsDeviceRefreshOf(saErr)]_vars

\* C11: SnapAction re-issues the batch only for a soft-expired sentinel in the
\* other list, refreshes the credentials before each re-issue, makes at most
\* three batch requests and then returns the last outcome, even if every
\* response carries a sentinel or the refresh fails
C11_ReissuesThenReturns ==
    /\ batches <= MaxSoftRefreshes + 1
    /\ saPc = "done" => saResult = "returned"

\* three batches, each answered with a sentinel, and the call returned
C11_ThreeBatches ==
    /\ batches = 3
    /\ saResult = "returned"
    /\ hasSentinel(saErr)
    /\ softRefreshes.last.user = "failed"

\* ------------------------------------------------------------------------
\* snapAction: the results of a 200 response
\* ------------------------------------------------------------------------

\* snapAction has returned for a 200 response
Filed == saPc = "returned" /\ saAnswer.kind = "200"

\* ... and with its results, not with the error of a result it cannot place
FiledAll == Filed /\ saErr.kind # "error"

ResultsOf(kind) ==
    {n \in 1..Len(saAnswer.results) : saAnswer.results[n].Result = kind}

\* the current snap a result is about; a refresh result of a call that
\* returned its results always has one
curOf(n) == thisRequest.curSnaps[saAnswer.results[n].InstanceKey]

\* the offered revision of result n is the current one or a blocked one
offersNothingNew(n) ==
    \/ saAnswer.results[n].Revision = curOf(n).Revision
    \/ saAnswer.results[n].Revision \in {curOf(n).Block[i] : i \in DOMAIN curOf(n).Block}

\* result n is in the result list, under the local key of its current snap
appended(n) ==
    \E i \in 1..Len(sars) :
        /\ sars[i].n = n
        /\ sars[i].Result = "refresh"
        /\ sars[i].Revision = saAnswer.results[n].Revision
        /\ sars[i].InstanceKey = curOf(n).InstanceName.key

notAppended(n) == \A i \in 1..Len(sars) : sars[i].n # n

\* the error is ErrNoUpdateAvailable, whichever result it was recorded for
isNoUpdateAvailable(e) == e = ErrNoUpdateAvailable(e.n)

\* a later result of the same response was filed under the same name
replacedLater(n) ==
    /\ curOf(n).InstanceName \in DOMAIN saErr.Refresh
    /\ saErr.Refresh[curOf(n).InstanceName].n > n

\* C12, as amended: when snapAction returns the results of a 200 response, a
\* refresh result offering the current or a blocked revision is not appended
\* and the refresh errors hold NoUpdateAvailable under the current snap's
\* instance name, unless a later result of the response replaced that entry;
\* every other refresh result is appended
C12_RefreshNoop ==
    FiledAll =>
        \A n \in ResultsOf("refresh") :
            IF offersNothingNew(n)
            THEN /\ notAppended(n)
                 /\ curOf(n).InstanceName \in DOMAIN saErr.Refresh
                 /\ \/ saErr.Refresh[curOf(n).InstanceName] = ErrNoUpdateAvailable(n)
                    \/ replacedLater(n)
            ELSE appended(n)

\* a blocked revision was offered to one snap and a new one to another
C12_Witness ==
    /\ FiledAll
    /\ \E n, m \in ResultsOf("refresh") :
          /\ saAnswer.results[n].Revision = 7
          /\ offersNothingNew(n)
          /\ saErr.Refresh[curOf(n).InstanceName] = ErrNoUpdateAvailable(n)
          /\ ~offersNothingNew(m)
          /\ appended(m)

\* C12, as stated, read for the calls that return their results: for every
\* refresh result that offers the current or a blocked revision, the snap is
\* not appended and the refresh errors hold NoUpdateAvailable under the current
\* snap's instance name; every other refresh result for a known current snap
\* is appended
C12_RefreshNoopAlways ==
    FiledAll =>
        \A n \in ResultsOf("refresh") :
            saAnswer.results[n].InstanceKey \in DOMAIN thisRequest.curSnaps =>
                IF offersNothingNew(n)
                THEN /\ notAppended(n)
                     /\ curOf(n).InstanceName \in DOMAIN saErr.Refresh
                     /\ isNoUpdateAvailable(saErr.Refresh[curOf(n).InstanceName])
                ELSE appended(n)

\* the buckets of the returned SnapActionError that hold the error made of
\* result n
filedIn(n) ==
    {b \in {"install"} : \E k \in DOMAIN saErr.Install : saErr.Install[k].n = n}
    \cup {b \in {"download"} : \E k \in DOMAIN saErr.Download : saErr.Download[k].n = n}
    \cup {b \in {"refresh"} : \E k \in DOMAIN saErr.Refresh : saErr.Refresh[k].n = n}
    \cup {b \in {"other"} : \E i \in 1..Len(saErr.Other) : saErr.Other[i].n = n}

timesInOther(n) == Cardinality({i \in 1..Len(saErr.Other) : saErr.Other[i].n = n})

\* what the instance-key of error result n refers to, and the key the error
\* belongs under in that bucket
referredTo(n) ==
    LET res == saAnswer.results[n]
        k   == res.InstanceKey
        rq  == thisRequest
    IN  IF k \in DOMAIN rq.installs
        THEN [bucket |-> "install", key |-> actions[rq.installs[k]].InstanceName]
        ELSE IF k \in DOMAIN rq.downloads
        THEN [bucket |-> "download", key |-> res.Name]
        ELSE IF k \in DOMAIN rq.curSnaps /\ k \in DOMAIN rq.refreshes
        THEN [bucket |-> "refresh", key |-> rq.curSnaps[k].InstanceName]
        ELSE [bucket |-> "other", key |-> n]

\* the same, with the errors for an install or a download that come without
\* a snap name sent to the other list
bucketOf(n) ==
    IF referredTo(n).bucket \in {"install", "download"} /\ saAnswer.results[n].Name = ""
    THEN [bucket |-> "other", key |-> n]
    ELSE referredTo(n)

bucketMap(b) ==
    IF b = "install" THEN saErr.Install
    ELSE IF b = "download" THEN saErr.Download ELSE saErr.Refresh

\* the error made of result n is the entry of its bucket
isEntry(n, at) ==
    IF at.bucket = "other"
    THEN timesInOther(n) = 1
    ELSE at.key \in DOMAIN bucketMap(at.bucket) /\ bucketMap(at.bucket)[at.key].n = n

\* ... or a later result of the response has replaced it under the same key
entryOrReplaced(n, at) ==
    IF at.bucket = "other"
    THEN timesInOther(n) = 1
    ELSE at.key \in DOMAIN bucketMap(at.bucket) /\ bucketMap(at.bucket)[at.key].n >= n

\* C13, as amended: when snapAction returns the results of a 200 response,
\* every error result is filed in no bucket but the one its instance-key
\* refers to (the other list for an install or download error without a snap
\* name); there it is in the other list once, or under its key in the map
\* unless a later result of the response was written under the same key
C13_ErrorBuckets ==
    FiledAll =>
        \A n \in ResultsOf("error") :
            /\ filedIn(n) \subseteq {bucketOf(n).bucket}
            /\ entryOrReplaced(n, bucketOf(n))
            /\ timesInOther(n) <= 1

\* an error under an install action's name and one, for a current snap that
\* no action names, in the other list
C13_Witness ==
    /\ FiledAll
    /\ \E n, m \in ResultsOf("error") :
          /\ bucketOf(n).bucket = "install"
          /\ isEntry(n, bucketOf(n))
          /\ saAnswer.results[m].InstanceKey \in DOMAIN thisRequest.curSnaps
          /\ bucketOf(m).bucket = "other"
          /\ isEntry(m, bucketOf(m))

\* C13, as stated, read for the calls that return their results: every error
\* result is filed into exactly one of the four buckets, the one its
\* instance-key refers to, under the key of that bucket; none is dropped or
\* filed twice
C13_ExactlyOneBucket ==
    FiledAll =>
        \A n \in ResultsOf("error") :
            /\ filedIn(n) = {referredTo(n).bucket}
            /\ isEntry(n, referredTo(n))

\* ------------------------------------------------------------------------
\* snapAction: the request
\* ------------------------------------------------------------------------

\* the text s holds the text sub
Contains(s, sub) ==
    \E i \in 0..(Len(s) - Len(sub)) : SubSeq(s, i + 1, i + Len(sub)) = sub

\* a batch was sent: body is its request
Sent == batches > 0

localKeyOf(i) == currentSnaps[i].InstanceName.key

\* <snap-id>:<base64url(sha256(snap-id || local-key || salt))>
hashedKey(snapID, localKey, salt) ==
    snapID \o <<":">> \o Base64(Sha256Write(Sha256New, snapID \o localKey \o salt))

\* the wire key of current snap i is what C14 says, given whether it may hold
\* the local key
privateKey(i, mayHold) ==
    LET sentKey == body.Context[i].InstanceKey
        snapID == currentSnaps[i].SnapID
    IN  IF localKeyOf(i) = <<>>
        THEN sentKey = snapID
        ELSE /\ sentKey = hashedKey(snapID, localKeyOf(i), privacyKey)
             /\ Contains(sentKey, localKeyOf(i)) => mayHold
             /\ \A other \in LocalKeys \ {localKeyOf(i)} :
                    genInstanceKey([currentSnaps[i] EXCEPT !.InstanceName.key = other],
                                   privacyKey).key # sentKey
             /\ \A salt \in Salts \ {privacyKey, <<>>} :
                    genInstanceKey(currentSnaps[i], salt).key # sentKey

C15_EpochPolicy ==
    Sent =>
        \A i \in 1..Len(actions) :
            LET sentEpoch == body.Actions[i].Epoch
            IN  IF actions[i].Action \in {"install", "download"}
                THEN IF actions[i].Epoch = 0
                     THEN sentEpoch.field = "null"
                     ELSE sentEpoch.field = "value" /\ sentEpoch.value = actions[i].Epoch
                ELSE sentEpoch.field = "omitted"

\* a request with a null epoch for one action and none for a refresh of a
\* snap whose epoch is not zero
C15_Witness ==
    /\ Sent
    /\ \E i, j \in 1..Len(actions) :
          /\ actions[i].Action \in {"install", "download"}
          /\ body.Actions[i].Epoch.field = "null"
          /\ actions[j].Action = "refresh"
          /\ actions[j].Epoch # 0
          /\ body.Actions[j].Epoch.field = "omitted"

\* ------------------------------------------------------------------------
\* Find
\* ------------------------------------------------------------------------

FindDone == fPc = "done"

noFindRequest == findCalls = [v2 |-> 0, v1 |-> 0]

hasDenied(qy) == \E i \in 1..Len(qy) : qy[i] \in Denylist

anonymousPrivate == search.Private /\ ~user.present

rejectedWith(err) ==
    findResult = [kind |-> "error", err |-> err] /\ noFindRequest

\* C16, as amended: a Find call whose query holds a character of the denylist
\* makes no request at any time and returns BadQuery, whatever Scope, Prefix
\* and Category are, unless the search is private and there is no user, when
\* it returns Unauthenticated
C16_BadQuery ==
    hasDenied(search.Query) =>
        /\ noFindRequest
        /\ FindDone => IF anonymousPrivate
                       THEN rejectedWith("ErrUnauthenticated")
                       ELSE rejectedWith("ErrBadQuery")

\* a private search with a bad query and an invalid scope by a logged-in
\* user was rejected as a bad query
C16_Witness ==
    /\ FindDone
    /\ hasDenied(search.Query)
    /\ search.Private /\ user.present
    /\ search.Scope = "narrow"
    /\ rejectedWith("ErrBadQuery")

\* C16, as stated: a Find call whose query holds a character of the denylist
\* returns BadQuery without a request, whatever the other fields of the search
\* and the user are
C16_BadQueryWhoeverAsks ==
    (FindDone /\ hasDenied(search.Query)) => rejectedWith("ErrBadQuery")

\* C17, as amended: a v2 find request carries channel=stable when the scope
\* is empty and no channel when it is wide; a Find call with any other scope
\* makes no request at any time and returns InvalidScope, unless the search is
\* private without a user (Unauthenticated) or the query holds a character of
\* the denylist (BadQuery)
C17_ScopePolicy ==
    /\ findCalls.v2 > 0 /\ findQuery.endpoint = "v2/snaps/find" =>
          /\ search.Scope \in {"", "wide"}
          /\ search.Scope = "" =>
                 "channel" \in DOMAIN findQuery.params /\ findQuery.params["channel"] = "stable"
          /\ search.Scope = "wide" => "channel" \notin DOMAIN findQuery.params
    /\ search.Scope \notin {"", "wide"} =>
          /\ noFindRequest
          /\ FindDone => IF anonymousPrivate THEN rejectedWith("ErrUnauthenticated")
                         ELSE IF hasDenied(search.Query) THEN rejectedWith("ErrBadQuery")
                         ELSE rejectedWith("ErrInvalidScope")

\* a private search of a logged-in user with a good query and a scope that
\* is neither empty nor wide was rejected as an invalid scope
C17_Witness ==
    /\ FindDone
    /\ search.Scope = "narrow"
    /\ search.Private /\ user.present
    /\ search.Category # "" /\ search.Prefix
    /\ rejectedWith("ErrInvalidScope")

\* C17, as stated: channel=stable for an empty scope, no channel for wide, and
\* for any other scope InvalidScope without a request, whatever the other
\* fields of the search and the user are
C17_InvalidScopeWhoeverAsks ==
    /\ findCalls.v2 > 0 /\ findQuery.endpoint = "v2/snaps/find" =>
          /\ search.Scope = "" =>
                 "channel" \in DOMAIN findQuery.params /\ findQuery.params["channel"] = "stable"
          /\ search.Scope = "wide" => "channel" \notin DOMAIN findQuery.params
    /\ (FindDone /\ search.Scope \notin {"", "wide"}) => rejectedWith("ErrInvalidScope")

\* the decimal text of a number of one or two digits
decimalText(n) ==
    IF n < 10 THEN <<Digits[n + 1]>> ELSE <<Digits[(n \div 10) + 1], Digits[(n % 10) + 1]>>

\* the version header is the text of a number below 20
oldStore(r) ==
    \/ r.version \in {decimalText(n) : n \in 0..19}
    \/ r.version \in {<<"+">> \o decimalText(n) : n \in 0..19}
    \/ r.version \in {<<"-">> \o decimalText(n) : n \in 0..99}

\* the v1 request names the common id and the category as search v1 does
v1Names ==
    /\ findQuery.endpoint = "api/v1/snaps/search"
    /\ "category" \notin DOMAIN findQuery.params
    /\ "common-id" \notin DOMAIN findQuery.params
    /\ search.Category # "" =>
          "section" \in DOMAIN findQuery.params
          /\ findQuery.params["section"] = search.Category
    /\ (search.CommonID # "" /\ ~search.Prefix) =>
          "common_id" \in DOMAIN findQuery.params
          /\ findQuery.params["common_id"] = search.CommonID

\* C18: Find sends a v1 search request only after the v2 endpoint answered 404
\* with a Snap-Store-Version that parses to a number below 20, and that request
\* carries section for the category and common_id for the common id; after a
\* 404 with a missing, non-numeric or >= 20 version, or any other status that
\* is not a success, there is no v1 request and Find returns an error
C18_Fallback ==
    /\ [][findCalls'.v1 # findCalls.v1 =>
            /\ findCalls.v2 = 1 /\ findCalls.v1 = 0 /\ findCalls'.v1 = 1
            /\ findResp'.status = 404
            /\ oldStore(findResp')
            /\ v1Names']_vars
    /\ [][(fPc = "v2" /\ fPc' = "done" /\ findResp'.status # 200) =>
            /\ findCalls' = [v2 |-> 1, v1 |-> 0]
            /\ findResult'.kind = "error"]_vars
    /\ [][(fPc = "v2" /\ findResp'.status = 404 /\ oldStore(findResp')) =>
            findCalls'.v1 = 1]_vars

\* the v1 endpoint was consulted for a category and a common id after a 404
\* of a store of version 19
C18_Witness ==
    /\ findCalls = [v2 |-> 1, v1 |-> 1]
    /\ findResp.status = 404
    /\ findResp.version = <<"1", "9">>
    /\ search.Category # "" /\ search.CommonID # "" /\ ~search.Prefix
    /\ findQuery.params["section"] = search.Category
    /\ findQuery.params["common_id"] = search.CommonID

\* ------------------------------------------------------------------------
\* The download cache
\* ------------------------------------------------------------------------

\* the last operation was a Put on a cache of capacity cacheCap > 0
afterPut == cacheLast.op = "Put" /\ cacheCap > 0

\* the entries the Put removed
evictedByPut == ((DOMAIN cacheLast.before) \cup {cacheLast.key}) \ (DOMAIN cacheFiles)

\* C19: after any Put on a cache of capacity N the cache holds at most N
\* entries; the entries the Put evicted are the least recently used ones, by
\* modification time, which a Get of an entry sets to the time of the Get, and
\* never the entry just inserted
C19_CacheBound ==
    /\ afterPut =>
          /\ Cardinality(DOMAIN cacheFiles) <= cacheCap
          /\ cacheLast.key \in DOMAIN cacheFiles
          /\ \A e \in evictedByPut :
                 \A k \in (DOMAIN cacheFiles) \ {cacheLast.key} :
                     cacheLast.before[e].mtime <= cacheLast.before[k].mtime
    /\ (cacheLast.op = "Get" /\ cacheLast.hit) =>
          /\ cacheLast.key \in DOMAIN cacheFiles
          /\ cacheFiles[cacheLast.key].mtime = cacheNow
          /\ \A k \in (DOMAIN cacheFiles) \ {cacheLast.key} :
                 cacheFiles[k].mtime < cacheNow

\* a full cache of two: the Put of a third entry evicted the entry that was
\* put last, because a Get had refreshed the one put first
C19_Witness ==
    /\ afterPut
    /\ cacheCap = 2
    /\ cacheLast.key = 3
    /\ evictedByPut = {2}
    /\ DOMAIN cacheFiles = {1, 3}
    /\ cacheLast.before[1].mtime > cacheLast.before[2].mtime
    /\ cacheLast.before[1].mtime = 3

\* ------------------------------------------------------------------------
\* Download: the cache hit
\* ------------------------------------------------------------------------

downloadFailed == dpc = "done" /\ dlResult \notin {"none", "ok"}

\* the partial file is gone, or it is to be left and has content
disciplineKept == partial.exists => (leavePartial /\ Len(partial.content) > 0)

\* C21, as stated: whenever Download returns an error after it has opened
\* <targetPath>.partial, the partial file has been removed unless
\* LeavePartialOnError is set and the file has content, on any error path.
\* Violated by a failing os.Rename and by a failing hash check of a complete
\* partial file, whose errors the deferred function does not see.
C21_PartialDiscipline == downloadFailed => disciplineKept

\* C21, the error paths that assign Download's err: the error of the download
\* loop, of authAvailable and of Truncate or Seek before the second run leave
\* no partial file behind unless it is to be left and has content; after a
\* failed Sync or Put the partial file is gone with the rename.
C21_DisciplineWhereErrIsSeen ==
    (downloadFailed /\ dlResult \notin {"rename error", "check error"}) => disciplineKept

\* C21: a zero-size partial file survives a failed rename
C21_ZeroSizeSurvives ==
    /\ downloadFailed
    /\ dlResult = "rename error"
    /\ partial.exists
    /\ partial.content = <<>>
    /\ ~leavePartial

\* ------------------------------------------------------------------------
\* C22: response bodies
\* ------------------------------------------------------------------------

\* doRequest has returned
requestDone == pc = "done" /\ result.kind # "none"

\* the download loop has returned
loopDone == dpc \in {"returned", "done"}

\* C22, as stated, for the request pipeline: when doRequest has returned,
\* every response it received is handed to the caller or has its body
\* closed.  Violated when the refresh after a 401 fails.
C22_PipelineClosesBodies == requestDone => openBodies = 0

\* C22, as stated, for the download loop: when the loop has returned, every
\* response it received has its body closed.  Violated when the context is
\* found cancelled, or the seek to the start fails, between the response and
\* the deferred close.
C22_LoopClosesBodies == loopDone => dlOpen = 0

\* C22, the paths of doRequest that keep the promise: a response that a
\* successful refresh discards is closed, and a call that returns a response
\* leaves no other body open.
C22_ClosedUnlessRefreshFails ==
    /\ pc \in {"newRequest", "send"} => openBodies = 0
    /\ (requestDone /\ result.kind = "response") => openBodies = 0
    /\ openBodies \in {0, 1}

\* C22: a call that has refreshed once and then fails to refresh returns an
\* error with the second 401 response open
C22_LeakAfterRetry ==
    /\ requestDone
    /\ result.kind = "error"
    /\ authRefreshes = 1
    /\ openBodies = 1

\* ------------------------------------------------------------------------
\* C23: Buy
\* ------------------------------------------------------------------------

BuyDone == buyPc = "done" /\ buyResult # NoBuyResult

buySucceeded == BuyDone /\ buyResult.err = ""

badBuyCall ==
    \/ buyOptions.SnapID = ""
    \/ buyOptions.Price <= 0
    \/ buyOptions.Currency = ""
    \/ ~buyUser

C23_RefusedWithoutUser ==
    /\ BuyDone
    /\ ~buyUser
    /\ buyResult.err = "ErrUnauthenticated"
    /\ buyCalls = 0

\* ------------------------------------------------------------------------
\* C24: findWildcard
\* ------------------------------------------------------------------------

\* the entries under top whose path components match the patterns component
\* by component
matching ==
    {e \in fwTree.entries : Match(fwPatterns[1], e.dir) /\ Match(fwPatterns[2], e.name)}

matchingFiles == {e \in matching : e.kind = "file"}

timesCalled(path) == Cardinality({i \in 1..Len(fwCalls) : fwCalls[i] = path})

WildcardDone == fwPc = "done" /\ fwResult # "none"

\* C24: findWildcard(top, patterns, cb) invokes cb exactly once for each
\* regular file under top whose relative path components match the respective
\* patterns, passing the relative path; when no entry matches it returns nil
\* without invoking cb; when cb returns an error findWildcard returns that
\* same error; a matching last-level entry that is not a regular file yields
\* an 'expected a regular file' error.
C24_FindWildcard ==
    /\ \A i \in 1..Len(fwCalls) :
          /\ \E e \in matchingFiles : fwCalls[i] = relpath(e)
          /\ timesCalled(fwCalls[i]) = 1
    /\ (WildcardDone /\ fwResult = "nil") =>
          /\ \A e \in matchingFiles : timesCalled(relpath(e)) = 1
          /\ matching = matchingFiles
    /\ (WildcardDone /\ matching = {}) => (fwResult = "nil" /\ fwCalls = <<>>)
    /\ \A i \in 1..Len(fwCalls) :
          fwCalls[i] \in fwCbFails =>
              (WildcardDone /\ fwResult = "cb error" /\ i = Len(fwCalls))
    /\ (WildcardDone /\ fwResult = "cb error") =>
          (fwCalls # <<>> /\ fwCalls[Len(fwCalls)] \in fwCbFails)
    /\ (WildcardDone /\ matching # matchingFiles) =>
          fwResult \in {"expected a regular file", "cb error"}
    /\ (WildcardDone /\ matching # matchingFiles /\ fwCbFails = {}) =>
          fwResult = "expected a regular file"

\* C24: with the patterns a* and *b, a tree with both directories and three
\* matching regular files, the callback was invoked for the three and
\* findWildcard returned nil
C24_Witness ==
    /\ WildcardDone
    /\ fwResult = "nil"
    /\ fwPatterns = <<<<"a", "*">>, <<"*", "b">>>>
    /\ Len(fwCalls) = 3
    /\ Cardinality(fwTree.entries) = 3

\* C24: a directory where a regular file is expected
C24_NotRegularReached ==
    /\ WildcardDone
    /\ fwResult = "expected a regular file"
    /\ Len(fwCalls) = 1

\* ------------------------------------------------------------------------
\* C25: EnsureDeviceSession
\* ------------------------------------------------------------------------

EnsureDone == edsPc = "done" /\ edsResult # NoEnsureResult

\* Device() answered the call
deviceRead == EnsureDone /\ dauthCtx /\ edsResult.err # "Device() error"

\* the call found a serial and no session
neededSession == deviceRead /\ edsRead.SessionMacaroon = 0 /\ edsRead.Serial # ""

\* the nonce and session exchange was made and its session is the one
\* returned and held by the AuthContext
exchanged ==
    /\ edsNet = 2
    /\ edsSession # 0
    /\ edsResult.device.SessionMacaroon = edsSession
    /\ ctxDevice = edsResult.device

\* the outcomes that do not depend on other goroutines
ensureSimpleOutcomes ==
    /\ (EnsureDone /\ ~dauthCtx) => (edsResult.err \notin {errNone, "pending"} /\ edsNet = 0)
    /\ (deviceRead /\ edsRead.SessionMacaroon # 0) =>
           (edsResult = [err |-> errNone, device |-> edsRead] /\ edsNet = 0)
    /\ (deviceRead /\ edsRead.SessionMacaroon = 0 /\ edsRead.Serial = "") =>
           (edsResult.err = ErrNoSerial /\ edsNet = 0)

\* C25, as stated: ... otherwise it performs the nonce + session exchange
\* and, on success, returns a device state whose session macaroon is the one
\* persisted through UpdateDeviceAuth.  Violated when another goroutine stored
\* a session between this call's Device() and its taking of the lock.
C25_AlwaysExchanges ==
    /\ ensureSimpleOutcomes
    /\ (neededSession /\ edsResult.err = errNone) => exchanged

\* C25: without an AuthContext EnsureDeviceSession fails; if the device has
\* a session macaroon it returns that device state without a network call;
\* otherwise, without a serial it fails with the no-serial error without a
\* network call; otherwise it calls refreshDeviceSession, which makes the
\* nonce + session exchange and on success returns the device state with the
\* session persisted through UpdateDeviceAuth, unless the device state of the
\* AuthContext has changed since the call read it, in which case that state
\* is returned and no network call is made.
C25_EnsureOutcomes ==
    /\ ensureSimpleOutcomes
    /\ (neededSession /\ edsResult.err = errNone) =>
           IF edsPeers = 0
           THEN exchanged
           ELSE /\ edsNet = 0
                /\ edsResult.device = ctxDevice
                /\ edsResult.device # edsRead

\* C25: a call that needed a session made the exchange and returned it
C25_Exchanged ==
    /\ neededSession
    /\ edsResult.err = errNone
    /\ exchanged
    /\ edsPeers = 0

\* C25: a call that needed a session returned the one another goroutine stored
C25_Adopted ==
    /\ neededSession
    /\ edsResult.err = errNone
    /\ edsNet = 0
    /\ edsPeers = 1

\* ------------------------------------------------------------------------
\* C26: hash-mismatch retry
\* ------------------------------------------------------------------------

\* the download loop, or the check of a complete partial file, has reported
\* a hash mismatch to Download for the first time
firstMismatch == dpc = "returned" /\ finalErr = "HashError" /\ pass = 1

\* the partial file is empty and the loop starts once more from offset 0
rerunFromScratch ==
    /\ partial'.exists /\ partial'.content = <<>>
    /\ resume' = 0 /\ wpos' = 0 /\ attempts' = 0
    /\ pass' = 2
    /\ dpc' = "attempt"

\* Download returns the error it holds
returnsLoopError == dpc' = "done" /\ dlResult' = "error" /\ finalErr' = finalErr /\ pass' = pass

\* C26, as stated: if the download loop (or the check of an already complete
\* partial file) reports a hash mismatch, Download truncates the partial file
\* to zero and runs the download loop once more from offset 0.  Violated when
\* w.Truncate(0) or the w.Seek after it fails.
C26_AlwaysRetries == [][firstMismatch => rerunFromScratch]_vars

\* C26: after a first hash mismatch Download truncates the partial file to
\* zero and runs the download loop once more from offset 0, unless the
\* truncation or the seek to the start fails, whose error it returns without
\* a second run; the loop runs at most twice, a second hash mismatch is
\* returned to the caller, and any other error of the first run is returned
\* without a second run.
C26_HashRetry ==
    /\ [][firstMismatch =>
            (rerunFromScratch \/ (dpc' = "done" /\ dlResult' = "truncate error" /\ pass' = 1))]_vars
    /\ [][(dpc = "returned" /\ finalErr = "HashError" /\ pass = 2) => returnsLoopError]_vars
    /\ [][(dpc = "returned" /\ finalErr \notin {"none", "HashError"}) => returnsLoopError]_vars
    /\ [](pass \in {1, 2})
    /\ [][pass' # pass => (firstMismatch /\ rerunFromScratch)]_vars

\* C26: the second run ended with a hash mismatch as well and Download
\* returned it
C26_Witness ==
    /\ dpc = "done"
    /\ dlResult = "error"
    /\ finalErr = "HashError"
    /\ pass = 2

\* C26: the second run repaired a partial file whose content was wrong
C26_SecondRunSucceeds ==
    /\ dpc = "done"
    /\ dlResult = "ok"
    /\ pass = 2
    /\ target.content = Artifact

\* ------------------------------------------------------------------------
\* C27: the delta and the fall back to the full download
\* ------------------------------------------------------------------------

\* this step calls downloadAndApplyDelta
deltaCalled == ~deltaTried /\ deltaTried'

\* this step ends downloadAndApplyDelta
deltaEnds == dpc \in {"delta", "deltaRun"} /\ deltaTried' /\ dpc' # "deltaRun"

\* Download returns success; no request of a full download was made
returnsWithoutFullDownload == dpc' = "done" /\ dlResult' = "ok" /\ attempts' = 0

\* Download stands before the full download with its result still open
fallsThrough == dpc' = "start" /\ dlResult' = "none" /\ attempts' = 0

\* C27: downloadAndApplyDelta is called only when deltas are enabled and
\* exactly one delta is offered; when it succeeds Download returns success
\* with no request of a full download; when it fails, with whatever error,
\* Download stands before the full download with no result yet; and the
\* delta's own file exists only while downloadAndApplyDelta runs
C27_DeltaFallback ==
    /\ [][/\ deltaCalled => useDeltasOn /\ dlDeltas = 1
          /\ (deltaEnds /\ deltaErr' = "none") => returnsWithoutFullDownload
          /\ (deltaEnds /\ deltaErr' # "none") => fallsThrough]_vars
    /\ [](deltaPathExists => dpc = "deltaRun")

\* a delta whose result has the wrong hash: the delta was downloaded, the
\* result and the delta's file are gone, and the full download is next
C27_Witness ==
    /\ dpc = "start"
    /\ deltaTried
    /\ deltaErr = "HashError"
    /\ deltaRequests = 1
    /\ ~deltaPathExists
    /\ ~partial.exists
    /\ dlResult = "none"

\* a delta that was applied: Download returned success, the delta's file is gone
C27_DeltaAppliedReached ==
    /\ dpc = "done"
    /\ deltaTried /\ deltaErr = "none"
    /\ dlResult = "ok"
    /\ target = [exists |-> TRUE, content |-> Artifact]
    /\ ~deltaPathExists
    /\ attempts = 0

\* the delta's file while downloadAndApplyDelta runs
C27_DeltaFileOpen == dpc = "deltaRun" /\ deltaPathExists

\* a delta in a format the Store does not take: no request was made for it
C27_UnsupportedReached ==
    /\ dpc = "start"
    /\ deltaErr = "unsupported format"
    /\ deltaRequests = 0
    /\ ~deltaPathExists

\* ------------------------------------------------------------------------
\* C28: the choice of the download URL
\* ------------------------------------------------------------------------

\* the caller has made its choice
URLDone == urlPc = "done"

\* the user has store authorisation
userAuthGiven == urlUser.present /\ urlUser.StoreMacaroon # ""

\* the device state can be read and holds a session macaroon
deviceSessionGiven ==
    urlDauth.present /\ ~urlDauth.fails /\ urlDauth.SessionMacaroon # ""

\* the user has no store authorisation and the device state cannot be read
deviceUnreadable == ~userAuthGiven /\ urlDauth.present /\ urlDauth.fails

\* C28, as stated: the anonymous URL, where one is offered, unless the
\* user's authorisation is available
C28_UserAuthDecides ==
    URLDone =>
        urlUsed = IF urlInfo.AnonDownloadURL # "" /\ ~userAuthGiven
                  THEN urlInfo.AnonDownloadURL
                  ELSE urlInfo.DownloadURL

\* C28: in Download, DownloadStream and downloadDelta the request goes to the
\* anonymous URL unless the user has store authorisation or the device has a
\* session macaroon, and to the authenticated URL then and when no anonymous
\* URL is offered; when the device state cannot be read for a user without
\* store authorisation the call fails and no request is made
C28_URLSelection ==
    URLDone =>
        IF deviceUnreadable
        THEN urlUsed = NoURL /\ urlErr # "none"
        ELSE /\ urlErr = "none"
             /\ urlUsed = IF urlInfo.AnonDownloadURL # ""
                              /\ ~userAuthGiven /\ ~deviceSessionGiven
                          THEN urlInfo.AnonDownloadURL
                          ELSE urlInfo.DownloadURL

\* a delta is fetched for no user on a device with a session: the request goes
\* to the authenticated URL although an anonymous one is offered
C28_Witness ==
    /\ URLDone
    /\ urlCaller = "downloadDelta"
    /\ urlUser = NoUser
    /\ deviceSessionGiven
    /\ urlInfo.AnonDownloadURL = "http://anon/snap"
    /\ urlUsed = "https://auth/snap"

\* Download for no user and a device without session: the anonymous URL
C28_AnonymousReached ==
    /\ URLDone
    /\ urlCaller = "Download"
    /\ urlUser = NoUser
    /\ urlDauth.present /\ ~urlDauth.fails /\ urlDauth.SessionMacaroon = ""
    /\ urlUsed = "http://anon/snap"

\* DownloadStream for a user with store authorisation: the authenticated URL
C28_UserAuthReached ==
    /\ URLDone
    /\ urlCaller = "DownloadStream"
    /\ userAuthGiven
    /\ urlInfo.AnonDownloadURL = "http://anon/snap"
    /\ urlUsed = "https://auth/snap"

\* no anonymous URL is offered and none is authorised: the authenticated URL
C28_NoAnonymousReached ==
    /\ URLDone
    /\ ~userAuthGiven /\ ~urlDauth.present
    /\ urlInfo.AnonDownloadURL = ""
    /\ urlUsed = "https://auth/snap"

\* ------------------------------------------------------------------------
\* C29: decodeJSONBody
\* ------------------------------------------------------------------------

\* decodeJSONBody has returned
DecodeDone == decPc = "done"

\* the status is one of 2xx
is2xx == decResp.StatusCode \in 200..299

\* the status is 200 or 201
is200or201 == decResp.StatusCode \in {200, 201}

\* the body was decoded into the success shape, where there is one
intoSuccess ==
    /\ decShapes.success => /\ decSuccess = jsonDecode(decResp.Body).value
                            /\ decErr = jsonDecode(decResp.Body).err
    /\ decFailure = Unfilled

\* the body was decoded into the failure shape, where there is one
intoFailure ==
    /\ decShapes.failure => /\ decFailure = jsonDecode(decResp.Body).value
                            /\ decErr = jsonDecode(decResp.Body).err
    /\ decSuccess = Unfilled

\* nothing was decoded
notDecoded == decSuccess = Unfilled /\ decFailure = Unfilled /\ decErr = "none"

C29_SuccessReached ==
    /\ DecodeDone
    /\ decResp.StatusCode = 201
    /\ decSuccess = [filled |-> TRUE, a |-> 2]
    /\ decFailure = Unfilled
    /\ decErr = "none"

\* a 404 with Content-Length 0 and both shapes: nothing is decoded
C29_EmptyFailureReached ==
    /\ DecodeDone
    /\ decResp.StatusCode = 404
    /\ decResp.ContentLength = 0
    /\ decShapes.failure
    /\ notDecoded

\* a 500 without body whose length is not known: the decoding fails
C29_UnknownLengthReached ==
    /\ DecodeDone
    /\ decResp.StatusCode = 500
    /\ decResp.ContentLength = -1 /\ decResp.Body = ""
    /\ decShapes.failure
    /\ decErr = "EOF"

\* ------------------------------------------------------------------------
\* C30: the channel of an action with a revision
\* ------------------------------------------------------------------------

\* the action objects of the request body that carry a revision and a channel
channelWithRevision ==
    {i \in DOMAIN body.Actions :
        body.Actions[i].Revision # 0 /\ body.Actions[i].Channel # ""}

\* C30, as stated: no action object of a request body carries a channel beside a
\* revision, on the first batch request and on every retry
C30_NoChannelWithRevision == channelWithRevision = {}

\* the retries carry no channel beside a revision: the first request cleared
\* the channel of the caller's action
C30_RetriesCarryNoChannel == batches >= 2 => channelWithRevision = {}

\* the first request of a call whose action has channel "beta" and revision 9:
\* the body carries both, the caller's action has lost its channel
C30_FirstBatchCarriesChannel ==
    /\ saPc = "sent"
    /\ batches = 1
    /\ channelWithRevision = {1}
    /\ body.Actions[1].Channel = "beta"
    /\ actions[1].Channel = ""

\* a retry of such a call: the body carries the revision alone
C30_RetryReached ==
    /\ saPc = "sent"
    /\ batches = 2
    /\ Len(actions) > 0
    /\ body.Actions[1].Revision = 9
    /\ body.Actions[1].Channel = ""

\* ------------------------------------------------------------------------
\* C31: the attempts of the download loop
\* ------------------------------------------------------------------------

\* this step is one attempt of the loop
attemptMade == attempts' = attempts + 1

\* the loop goes on to another attempt
goesOn == dpc' = "attempt"

\* what an attempt may meet and be followed by another: a transport error of
\* the request, a 5xx response, an error in the middle of the copy
worthRetry(l) ==
    \/ l.met \in {"transport error", "copy error"}
    \/ l.met = "response" /\ l.status >= 500

\* what ends the loop whatever attempts are left: cancellation, a status other
\* than 200, 206 and 5xx, a wrong resume offset, a failed seek, a complete copy
endsLoop(l) ==
    \/ l.met \in {"cancelled", "resume offset wrong", "seek error", "copy and seek error",
                  "copied"}
    \/ l.met = "response" /\ l.status < 500

\* C31: the loop makes at most 7 attempts in one invocation; another attempt
\* follows only a transport error, a 5xx response or an error in the middle of
\* the copy, and only while fewer than 7 were made; cancellation, 402, every
\* other final status than 200 and 206 (with a DownloadError of that code), a
\* wrong resume offset, a failed seek and a complete copy with or without a
\* hash error end the loop at once
C31_LoopAttempts ==
    /\ [](attempts <= DownloadAttempts)
    /\ [][attemptMade =>
             /\ goesOn => (worthRetry(lastAttempt') /\ attempts' < DownloadAttempts)
             /\ endsLoop(lastAttempt') => dpc' = "returned"
             /\ (~goesOn /\ lastAttempt'.met = "response") =>
                    /\ finalErr' = "error"
                    /\ lastAttempt'.err = IF lastAttempt'.status = 402 THEN "please buy"
                                          ELSE "DownloadError"
             /\ lastAttempt'.met = "copied" => finalErr' \in {"none", "HashError"}]_vars

\* the seventh attempt gets a 500 like the six before: the loop returns a
\* DownloadError
C31_Witness ==
    /\ dpc = "returned"
    /\ attempts = DownloadAttempts
    /\ lastAttempt = attemptMet("response", 500, "DownloadError")
    /\ finalErr = "error"

\* a 402 to the first attempt ends the loop
C31_PaymentRequiredReached ==
    /\ dpc = "returned"
    /\ attempts = 1
    /\ lastAttempt = attemptMet("response", 402, "please buy")

\* a cancelled third attempt ends the loop
C31_CancelledReached ==
    /\ dpc = "returned"
    /\ attempts = 3
    /\ lastAttempt.met = "cancelled"

\* a copy that fails and a seek that fails after it end the loop with
\* attempts left
C31_SeekFailsReached ==
    /\ dpc = "returned"
    /\ attempts < DownloadAttempts
    /\ lastAttempt.met = "copy and seek error"

\* a complete copy with the wrong hash ends the loop at the second attempt
C31_HashErrorReached ==
    /\ dpc = "returned"
    /\ attempts = 2
    /\ lastAttempt.met = "copied"
    /\ finalErr = "HashError"

\* the loop in its sixth attempt after five copies that failed
C31_RetryingReached ==
    /\ dpc = "attempt"
    /\ attempts = 6
    /\ lastAttempt.met = "copy error"

\* ------------------------------------------------------------------------
\* C32: the instance-keys of install and download actions
\* ------------------------------------------------------------------------

\* a batch was sent: body is its request body
BatchSent == saPc \in {"sent", "returned"}

\* how many of the first i action objects of the body are of the kind of the
\* i-th
nthOfItsKind(i) ==
    Cardinality({j \in 1..i : body.Actions[j].Action = body.Actions[i].Action})

\* the actions of a kind that were sent with instance-key k
sentWith(kind, k) ==
    {i \in DOMAIN body.Actions :
        body.Actions[i].Action = kind /\ body.Actions[i].InstanceKey = k}

\* the action of a kind result n refers to by its instance-key
sentWithKeyOf(kind, n) == sentWith(kind, saAnswer.results[n].InstanceKey)

\* an error filed for result n in a map of errors
filedFor(errs, n) == {name \in DOMAIN errs : errs[name].n = n}

\* C32: the i-th install action of a batch is sent with instance-key
\* install-i and the j-th download action with download-j; no two actions of
\* a kind share such a key; and what is filed for a result with such a key is
\* filed with the action sent with that key and no other: an install error
\* under that action's instance name and with its channel, a download error
\* with that action's channel, an install result with the local key of that
\* action's instance name
C32_SyntheticKeys ==
    /\ BatchSent =>
          \A i \in DOMAIN body.Actions :
              /\ body.Actions[i].Action = "install"
                    => body.Actions[i].InstanceKey = <<"install-", ToString(nthOfItsKind(i))>>
              /\ body.Actions[i].Action = "download"
                    => body.Actions[i].InstanceKey = <<"download-", ToString(nthOfItsKind(i))>>
              /\ body.Actions[i].Action \in {"install", "download"}
                    => sentWith(body.Actions[i].Action, body.Actions[i].InstanceKey) = {i}
    /\ FiledAll =>
          /\ \A n \in ResultsOf("error") :
                /\ \A name \in filedFor(saErr.Install, n) :
                      \E i \in sentWithKeyOf("install", n) :
                          /\ sentWithKeyOf("install", n) = {i}
                          /\ name = actions[i].InstanceName
                          /\ saErr.Install[name].channel = actions[i].Channel
                /\ \A name \in filedFor(saErr.Download, n) :
                      \E i \in sentWithKeyOf("download", n) :
                          /\ sentWithKeyOf("download", n) = {i}
                          /\ name = saAnswer.results[n].Name
                          /\ saErr.Download[name].channel = actions[i].Channel
          /\ \A r \in 1..Len(sars) :
                sars[r].Result = "install" =>
                    \E i \in sentWithKeyOf("install", sars[r].n) :
                        /\ sentWithKeyOf("install", sars[r].n) = {i}
                        /\ sars[r].InstanceKey = actions[i].InstanceName.key

\* two installs in one batch; the store reports an error for install-2, which
\* is filed under the second action's instance name
C32_Witness ==
    /\ FiledAll
    /\ Len(actions) = 2
    /\ body.Actions[1].InstanceKey = <<"install-", "1">>
    /\ body.Actions[2].InstanceKey = <<"install-", "2">>
    /\ actions[1].InstanceName # actions[2].InstanceName
    /\ \E n \in ResultsOf("error") :
          /\ saAnswer.results[n].InstanceKey = <<"install-", "2">>
          /\ filedFor(saErr.Install, n) = {actions[2].InstanceName}

\* a download after an install is download-1, and the install result for
\* install-1 gets the local key of the install action
C32_CountedPerKindReached ==
    /\ FiledAll
    /\ Len(actions) = 2
    /\ body.Actions[1].InstanceKey = <<"install-", "1">>
    /\ body.Actions[2].InstanceKey = <<"download-", "1">>
    /\ \E r \in 1..Len(sars) :
          /\ sars[r].Result = "install"
          /\ saAnswer.results[sars[r].n].InstanceKey = <<"install-", "1">>
          /\ sars[r].InstanceKey = <<"k">>

\* ------------------------------------------------------------------------
\* SnapAction called with input it refuses
\* ------------------------------------------------------------------------

\* current snaps snapAction refuses: no snap-id, no instance name, no revision
InvalidSnapChoices ==
    {[InstanceName |-> [snap |-> "foo", key |-> <<>>], SnapID |-> <<>>,
      Revision |-> 5, TrackingChannel |-> "", Block |-> <<>>, Epoch |-> 0],
     [InstanceName |-> NoName, SnapID |-> <<"i">>,
      Revision |-> 5, TrackingChannel |-> "", Block |-> <<>>, Epoch |-> 0],
     [InstanceName |-> [snap |-> "foo", key |-> <<>>], SnapID |-> <<"i">>,
      Revision |-> 0, TrackingChannel |-> "", Block |-> <<>>, Epoch |-> 0]}

\* actions snapAction refuses: an unknown kind, no instance name, a download
\* of a snap with a local key
InvalidActionChoices ==
    {[Action |-> "remove", InstanceName |-> [snap |-> "foo", key |-> <<>>],
      SnapID |-> <<>>, Channel |-> "stable", Revision |-> 0, Epoch |-> 0],
     [Action |-> "install", InstanceName |-> NoName,
      SnapID |-> <<>>, Channel |-> "stable", Revision |-> 0, Epoch |-> 0],
     [Action |-> "download", InstanceName |-> [snap |-> "foo", key |-> <<"k">>],
      SnapID |-> <<>>, Channel |-> "beta", Revision |-> 9, Epoch |-> 0]}

\* one SnapAction call whose lists may hold what snapAction refuses
InitInvalid ==
    /\ PipelineAtRest
    /\ dauthCtx = TRUE
    /\ user \in SnapActionUsers
    /\ ctxUser = user
    /\ ctxDevice = [Serial |-> "serial", SessionMacaroon |-> 1]
    /\ IdleSession
    /\ LaterIdle
    /\ IdleDownload
    /\ IdleFind
    /\ IdleCache
    /\ IdleDownloadEntry
    /\ saPc = "call"
    /\ currentSnaps \in ListsUpTo(CurrentSnapChoices \cup InvalidSnapChoices, MaxReissuedLen)
    /\ actions \in ListsUpTo(ActionChoices \cup InvalidActionChoices, MaxReissuedLen)
    /\ privacyKey \in Salts
    /\ saRefreshes = 0
    /\ batches = 0
    /\ body = [Context |-> <<>>, Actions |-> <<>>]
    /\ saAnswer = NoAnswer
    /\ sars = <<>>
    /\ saErr = noError
    /\ saResult = "none"
    /\ softRefreshes = [calls |-> 0, last |-> NoRefresh]

\* SnapAction up to the departure of its first request
NextInvalid ==
    \/ SnapActionNothingToDo
    \/ BatchNotSent
    \/ SendBatch
    \/ SnapActionReturn

SpecInvalid == InitInvalid /\ [][NextInvalid]_vars

emptyInput == Len(currentSnaps) = 0 /\ Len(actions) = 0

snapWithoutID == \E i \in 1..Len(currentSnaps) : currentSnaps[i].SnapID = <<>>

snapWithoutName ==
    \E i \in 1..Len(currentSnaps) : currentSnaps[i].InstanceName.snap = ""

snapWithoutRevision == \E i \in 1..Len(currentSnaps) : currentSnaps[i].Revision = 0

localKeyWithoutSalt ==
    /\ privacyKey = <<>>
    /\ \E i \in 1..Len(currentSnaps) : currentSnaps[i].InstanceName.key # <<>>

actionOfUnknownKind ==
    \E i \in 1..Len(actions) : actions[i].Action \notin {"install", "download", "refresh"}

actionWithoutName == \E i \in 1..Len(actions) : actions[i].InstanceName.snap = ""

downloadWithLocalKey ==
    \E i \in 1..Len(actions) :
        actions[i].Action = "download" /\ actions[i].InstanceName.key # <<>>

refusedInput ==
    \/ snapWithoutID \/ snapWithoutName \/ snapWithoutRevision \/ localKeyWithoutSalt
    \/ actionOfUnknownKind \/ actionWithoutName \/ downloadWithLocalKey

SnapActionOver == saPc \in {"returned", "done"}

\* C33: SnapAction sends no request for input it refuses: with no current
\* snap and no action it returns a SnapActionError with NoResults set; with a
\* current snap without snap-id, instance name or revision, a current snap
\* with a local key and no salt, an action of an unknown kind, an action
\* without instance name or a download with a local key it returns an error
\* that is not a SnapActionError; in both cases no batch was sent
C33_InvalidInputSendsNothing ==
    /\ (emptyInput /\ SnapActionOver) => (batches = 0 /\ saErr = nothingToDo)
    /\ refusedInput => batches = 0
    /\ (refusedInput /\ SnapActionOver) => (saErr = plainError /\ sars = <<>>)

C33_Witness == SnapActionOver /\ actionOfUnknownKind /\ Len(currentSnaps) > 0

C33_NothingToDoReached == SnapActionOver /\ emptyInput

C33_SnapWithoutIDReached == SnapActionOver /\ snapWithoutID

C33_SnapWithoutNameReached == SnapActionOver /\ snapWithoutName

C33_SnapWithoutRevisionReached == SnapActionOver /\ snapWithoutRevision

C33_NoSaltReached == SnapActionOver /\ localKeyWithoutSalt

C33_ActionWithoutNameReached == SnapActionOver /\ actionWithoutName /\ ~actionOfUnknownKind

C33_DownloadWithKeyReached ==
    SnapActionOver /\ downloadWithLocalKey /\ ~actionOfUnknownKind /\ ~actionWithoutName

\* valid input is sent
C33_ValidInputSent == saPc = "sent" /\ ~refusedInput /\ ~emptyInput /\ batches > 0

\* ------------------------------------------------------------------------
\* ConnectivityCheck and its one checker, snapConnCheck
\* ------------------------------------------------------------------------

\* attempt.More() of connCheckStrategy in the n-th attempt
moreConnAttempts(n, timeLeft) == n < ConnCheckAttempts /\ timeLeft

\* url.ParseRequestURI: an empty URL and one that has neither a scheme nor a
\* leading slash do not parse
ParseRequestURIFails(u) == u.kind \in {"empty", "relative"}

\* cdnHeader: "none" without CDN, "" without AuthContext, else made of the
\* cloud information, whose lookup may fail
cdnHeaderFails(st) == ~st.noCDN /\ st.dauthCtx /\ st.cloudInfoErr

\* result.ChannelMap[0].Download.URL after the info request: decodeJSONBody
\* fills result from a 200 or 201 and leaves it alone otherwise
resultURL(info) == IF okStatus(info.StatusCode) THEN info.URL ELSE NoDownloadURL

\* a host is reachable whatever the checker returned
reachableWhateverFollows(err, i) == i = 1 \/ err = "none"

\* "status[host] = (err == nil)"
hostStatus(err, i) == err = "none"

\* "hosts = append(hosts, infoURL.Host)" and the first attempt of the info
\* request
SnapConnCheckCalled ==
    /\ ccPc = "call"
    /\ ccHosts' = <<APIHost>>
    /\ ccAttempt' = 1
    /\ ccPc' = "info"
    /\ UNCHANGED <<ccStore, ccInfo, ccResp, ccErr, ccStatus, ccRet>>
    /\ UNCHANGED notConn

\* an attempt of the info request ends with an error or a status worth
\* another attempt, or with a body cut short
InfoRetried ==
    /\ ccPc = "info"
    /\ moreConnAttempts(ccAttempt, TRUE)
    /\ ccAttempt' = ccAttempt + 1
    /\ UNCHANGED <<ccPc, ccStore, ccInfo, ccResp, ccHosts, ccErr, ccStatus, ccRet>>
    /\ UNCHANGED notConn

\* the info request fails: "if err != nil { return hosts, err }"
InfoFails ==
    /\ ccPc = "info"
    /\ \E out \in InfoOutcomes :
          /\ \/ out.kind = "error"
             \/ out.kind = "response" /\ okStatus(out.StatusCode) /\ out.json = "bad"
          /\ ccInfo' = out
    /\ ccErr' = IF ccInfo'.kind = "error" THEN "info request" ELSE "info decode"
    /\ ccPc' = "checked"
    /\ UNCHANGED <<ccStore, ccAttempt, ccResp, ccHosts, ccStatus, ccRet>>
    /\ UNCHANGED notConn

\* the info request is answered and decodeJSONBody returns nil; the download
\* URL is parsed: "hosts = append(hosts, dlURL.Host)"
InfoAnswered ==
    /\ ccPc = "info"
    /\ \E out \in InfoOutcomes, timeLeft \in BOOLEAN :
          /\ out.kind = "response"
          /\ ~(moreConnAttempts(ccAttempt, timeLeft) /\ out.StatusCode >= 500)
          /\ okStatus(out.StatusCode) => out.json = "ok"
          /\ ccInfo' = out
    /\ IF ParseRequestURIFails(resultURL(ccInfo'))
       THEN /\ ccErr' = "parse"
            /\ ccPc' = "checked"
            /\ UNCHANGED ccHosts
       ELSE /\ ccHosts' = Append(ccHosts, resultURL(ccInfo').Host)
            /\ ccPc' = "cdn"
            /\ UNCHANGED ccErr
    /\ UNCHANGED <<ccStore, ccAttempt, ccResp, ccStatus, ccRet>>
    /\ UNCHANGED notConn

\* "cdnHeader, err := s.cdnHeader()", then the first attempt of the HEAD
CdnHeader ==
    /\ ccPc = "cdn"
    /\ IF cdnHeaderFails(ccStore)
       THEN /\ ccErr' = "cloud info"
            /\ ccPc' = "checked"
            /\ UNCHANGED ccAttempt
       ELSE /\ ccAttempt' = 1
            /\ ccPc' = "head"
            /\ UNCHANGED ccErr
    /\ UNCHANGED <<ccStore, ccInfo, ccResp, ccHosts, ccStatus, ccRet>>
    /\ UNCHANGED notConn

\* an attempt of the HEAD ends with an error or a status worth another attempt
HeadRetried ==
    /\ ccPc = "head"
    /\ moreConnAttempts(ccAttempt, TRUE)
    /\ ccAttempt' = ccAttempt + 1
    /\ UNCHANGED <<ccPc, ccStore, ccInfo, ccResp, ccHosts, ccErr, ccStatus, ccRet>>
    /\ UNCHANGED notConn

\* the HEAD fails: "if err != nil { return hosts, err }"
HeadFails ==
    /\ ccPc = "head"
    /\ ccResp' = [NoConnResponse EXCEPT !.kind = "error"]
    /\ ccErr' = "head request"
    /\ ccPc' = "checked"
    /\ UNCHANGED <<ccStore, ccAttempt, ccInfo, ccHosts, ccStatus, ccRet>>
    /\ UNCHANGED notConn

\* the HEAD is answered: "hosts[len(hosts)-1] = resp.Request.URL.Host", then
\* "if resp.StatusCode != 200 { return hosts, errUnexpectedConnCheckResponse }"
HeadAnswered ==
    /\ ccPc = "head"
    /\ \E out \in HeadOutcomes(resultURL(ccInfo)), timeLeft \in BOOLEAN :
          /\ out.kind = "response"
          /\ ~(moreConnAttempts(ccAttempt, timeLeft) /\ out.StatusCode >= 500)
          /\ ccResp' = out
    /\ ccHosts' = [ccHosts EXCEPT ![Len(ccHosts)] = ccResp'.Host]
    /\ ccErr' = IF ccResp'.StatusCode # 200 THEN "unexpected response" ELSE "none"
    /\ ccPc' = "checked"
    /\ UNCHANGED <<ccStore, ccAttempt, ccInfo, ccStatus, ccRet>>
    /\ UNCHANGED notConn

\* ConnectivityCheck: "status[host] = (err == nil)" for every host of the
\* checker, "return status, nil"
ConnectivityCheck ==
    /\ ccPc = "checked"
    /\ ccStatus' = [h \in {ccHosts[i] : i \in 1..Len(ccHosts)} |->
                       hostStatus(ccErr, LastOf({i \in 1..Len(ccHosts) : ccHosts[i] = h}))]
    /\ ccRet' = "nil"
    /\ ccPc' = "done"
    /\ UNCHANGED <<ccStore, ccAttempt, ccInfo, ccResp, ccHosts, ccErr>>
    /\ UNCHANGED notConn

InitConn ==
    /\ BeforeLastIdle
    /\ IdleURL /\ IdleDecode /\ IdleCurrency
    /\ ccPc = "call"
    /\ ccStore \in [noCDN : BOOLEAN, dauthCtx : BOOLEAN, cloudInfoErr : BOOLEAN]
    /\ ccAttempt = 0
    /\ ccInfo = NoConnResponse
    /\ ccResp = NoConnResponse
    /\ ccHosts = <<>>
    /\ ccErr = "none"
    /\ ccStatus = <<>>
    /\ ccRet = "none"

NextConn ==
    \/ SnapConnCheckCalled
    \/ InfoRetried
    \/ InfoFails
    \/ InfoAnswered
    \/ CdnHeader
    \/ HeadRetried
    \/ HeadFails
    \/ HeadAnswered
    \/ ConnectivityCheck

SpecConn == InitConn /\ [][NextConn]_vars

ConnCheckDone == ccPc = "done"

\* the download URL was parsed
downloadURLKnown ==
    /\ ccInfo.kind = "response"
    /\ ccInfo.StatusCode \in {200, 201} => ccInfo.json = "ok"
    /\ ~ParseRequestURIFails(resultURL(ccInfo))

headAnswered == ccResp.kind = "response"

\* the host the download was found at: where the HEAD ended if it was
\* answered, the host of the download URL if it was not
cdnHost == IF headAnswered THEN ccResp.Host ELSE resultURL(ccInfo).Host

infoDecoded ==
    ccInfo.kind = "response" /\ ccInfo.StatusCode \in {200, 201} /\ ccInfo.json = "ok"

wholeProbeSucceeded == infoDecoded /\ headAnswered /\ ccResp.StatusCode = 200

failedAtCDN == downloadURLKnown /\ ~(headAnswered /\ ccResp.StatusCode = 200)

\* C34: ConnectivityCheck returns no error; its map holds the API host and,
\* once the download URL is known, the host the download was found at after
\* the redirects, and no other host; a host is reported reachable only if the
\* info request was decoded and the HEAD was answered with 200, so after a
\* failure at the CDN the API host is reported unreachable too
C34_ConnectivityCheck ==
    ConnCheckDone =>
        /\ ccRet = "nil"
        /\ APIHost \in DOMAIN ccStatus
        /\ downloadURLKnown => cdnHost \in DOMAIN ccStatus
        /\ DOMAIN ccStatus \subseteq
              ({APIHost} \cup (IF downloadURLKnown THEN {cdnHost} ELSE {}))
        /\ \A h \in DOMAIN ccStatus : ccStatus[h] <=> wholeProbeSucceeded
        /\ failedAtCDN => ~ccStatus[APIHost]

C34_Witness ==
    /\ ConnCheckDone
    /\ failedAtCDN /\ headAnswered
    /\ cdnHost \in RedirectHosts
    /\ ~ccStatus[APIHost] /\ ~ccStatus[cdnHost]

C34_AllReachableReached ==
    ConnCheckDone /\ wholeProbeSucceeded /\ DOMAIN ccStatus = {APIHost, "edge"}

C34_OnlyAPIHostReached == ConnCheckDone /\ ~downloadURLKnown /\ DOMAIN ccStatus = {APIHost}

C34_HeadUnansweredReached ==
    ConnCheckDone /\ downloadURLKnown /\ ccResp.kind = "error" /\ "cdn" \in DOMAIN ccStatus

C34_CloudInfoReached == ConnCheckDone /\ ccErr = "cloud info"

C34_SameHostReached == ConnCheckDone /\ wholeProbeSucceeded /\ DOMAIN ccStatus = {APIHost}

\* ------------------------------------------------------------------------
\* Concurrent callers of refreshDeviceSession, with a fair scheduler
\* ------------------------------------------------------------------------

\* the steps of goroutine g inside refreshDeviceSession once it holds the
\* mutex: each is a call of a collaborator that returns
stepsHoldingMutex(g) ==
    \/ RereadAdopt(g)
    \/ RereadSame(g)
    \/ RequestNonce(g)
    \/ SessionRequestParams(g)
    \/ RequestSession(g)
    \/ StoreSession(g)
    \/ SessionStepFails(g)

\* the collaborators return (weak fairness of the steps under the mutex), and
\* sync.Mutex hands the mutex to a goroutine that keeps waiting for it (strong
\* fairness of Lock: the mutex is free again and again, not continuously)
SpecSessionFair ==
    /\ InitSession
    /\ [][NextSession]_vars
    /\ \A g \in Goroutines : WF_vars(stepsHoldingMutex(g))
    /\ \A g \in Goroutines : SF_vars(Lock(g))

insideRefresh(g) == gpc[g] \in {"reread", "nonce", "params", "session", "update"}

calledRefresh(g) == gpc[g] = "lock" \/ insideRefresh(g)

\* C35: refreshDeviceSession releases sessionMu on every return path: the
\* mutex is held exactly while one goroutine is between Lock and its return,
\* by that goroutine; when no goroutine is inside the mutex is free; and
\* whenever goroutines have called refreshDeviceSession, a state follows in
\* which every caller has returned and the mutex is free (a caller, once it
\* has returned, does not call again, so this is every caller returning)
C35_EveryCallerReturns ==
    /\ [](\A g \in Goroutines : sessionMu = g <=> insideRefresh(g))
    /\ []((\A g \in Goroutines : ~insideRefresh(g)) => sessionMu = 0)
    /\ (\E g \in Goroutines : calledRefresh(g)) ~>
          (\A g \in Goroutines : ~calledRefresh(g) /\ sessionMu = 0)

\* a refresh failed, and another caller went through afterwards
C35_Witness ==
    /\ \A g \in Goroutines : gpc[g] = "done"
    /\ sessionMu = 0
    /\ \E g, h \in Goroutines : gout[g] = "failed" /\ gout[h] = "refreshed"

C35_AllFailedReached ==
    /\ \A g \in Goroutines : gpc[g] = "done" /\ gout[g] = "failed"
    /\ sessionMu = 0

C35_WaitingReached ==
    \E g, h \in Goroutines : insideRefresh(g) /\ gpc[h] = "lock" /\ sessionMu = g

C35_AdoptedReached ==
    /\ sessionMu = 0
    /\ \E g, h \in Goroutines : gout[g] = "adopted" /\ gout[h] = "failed"

\* ------------------------------------------------------------------------
\* The user refresh of a call without a user
\* ------------------------------------------------------------------------

\* what the soft-expiry path of SnapAction did about the user: nothing,
\* refreshUser called (it failed or succeeded), or an absent user read
userRefreshOfSnapAction == softRefreshes.last.user

\* C36, as stated: with an absent user the soft-expiry path of SnapAction
\* neither calls the user refresh nor dereferences the user
C36_NoUserRefreshWithoutUser ==
    ~user.present => (userRefreshOfSnapAction = "none" /\ saResult # "panic")

\* the 401 path of doRequest: with an absent user no user refresh is made
C36_DoRequestNeedsUser == ~user.present => (userRefreshes = 0 /\ last.user = "none")

\* SnapAction without a user and with an AuthContext: refreshDischarges reads
\* the discharges of the absent user
C36_NilUserRead ==
    /\ ~user.present /\ dauthCtx
    /\ needsUserRefreshOf(saErr)
    /\ saResult = "panic"

\* SnapAction without a user and without an AuthContext: refreshUser is
\* called and returns its error, the batch is issued again
C36_RefreshUserCalled ==
    /\ ~user.present /\ ~dauthCtx
    /\ userRefreshOfSnapAction = "failed"
    /\ batches = 2

\* doRequest without a user, answered 401 with needs_refresh=1
C36_DoRequestAnonymousReached ==
    /\ ~user.present
    /\ pc = "done"
    /\ first.status = 401 /\ "needs_refresh=1" \in first.hints
    /\ userRefreshes = 0

\* ------------------------------------------------------------------------
\* The instance-keys of a request body
\* ------------------------------------------------------------------------

contextKeys == {body.Context[i].InstanceKey : i \in DOMAIN body.Context}

everyKeyGiven ==
    /\ \A i \in DOMAIN body.Context : body.Context[i].InstanceKey # <<>>
    /\ \A i \in DOMAIN body.Actions : body.Actions[i].InstanceKey # <<>>

contextKeysDiffer ==
    \A i, j \in DOMAIN body.Context :
        i # j => body.Context[i].InstanceKey # body.Context[j].InstanceKey

actionKeysDiffer ==
    \A i, j \in DOMAIN body.Actions :
        i # j => body.Actions[i].InstanceKey # body.Actions[j].InstanceKey

refreshKeysInContext ==
    \A i \in DOMAIN body.Actions :
        body.Actions[i].Action = "refresh" => body.Actions[i].InstanceKey \in contextKeys

\* C37, as stated: in every request sent every context entry and every action
\* carries a non-empty instance-key, no two context entries and no two
\* actions share one, and every refresh carries the key of a context entry
C37_InstanceKeys ==
    batches > 0 =>
        everyKeyGiven /\ contextKeysDiffer /\ actionKeysDiffer /\ refreshKeysInContext

\* the current snaps differ in snap-id or local key, every refresh names a
\* current snap, and no two refreshes name the same one
consistentInput ==
    /\ \A i, j \in 1..Len(currentSnaps) :
          i # j => \/ currentSnaps[i].SnapID # currentSnaps[j].SnapID
                   \/ currentSnaps[i].InstanceName.key # currentSnaps[j].InstanceName.key
    /\ \A i \in 1..Len(actions) :
          actions[i].Action = "refresh" =>
              \E c \in 1..Len(currentSnaps) :
                  currentSnaps[c].InstanceName = actions[i].InstanceName
    /\ \A i, j \in 1..Len(actions) :
          (i # j /\ actions[i].Action = "refresh" /\ actions[j].Action = "refresh")
              => actions[i].InstanceName # actions[j].InstanceName

\* what the code does guarantee: the context keys are never empty and the
\* keys of installs and downloads never clash; all of C37 for consistent input
C37_KeysOfConsistentInput ==
    batches > 0 =>
        /\ \A i \in DOMAIN body.Context : body.Context[i].InstanceKey # <<>>
        /\ \A i, j \in DOMAIN body.Actions :
              (i # j /\ body.Actions[i].Action # "refresh")
                  => body.Actions[i].InstanceKey # body.Actions[j].InstanceKey
        /\ consistentInput =>
              everyKeyGiven /\ contextKeysDiffer /\ actionKeysDiffer /\ refreshKeysInContext

\* a refresh of a snap that is not among the current snaps is sent with an
\* empty instance-key
C37_EmptyRefreshKey ==
    /\ batches = 1
    /\ Len(currentSnaps) = 0
    /\ Len(actions) = 1 /\ actions[1].Action = "refresh"
    /\ body.Actions[1].InstanceKey = <<>>

\* the same current snap twice: two context entries with one key
C37_SharedContextKey ==
    /\ batches = 1
    /\ Len(body.Context) = 2
    /\ body.Context[1].InstanceKey = body.Context[2].InstanceKey

\* two refreshes of one snap: two actions with one key
C37_SharedRefreshKey ==
    /\ batches = 1
    /\ Len(body.Actions) = 2
    /\ body.Actions[1].InstanceKey = body.Actions[2].InstanceKey
    /\ body.Actions[1].InstanceKey # <<>>

\* consistent input with a refresh and a second current snap with a local key
C37_ConsistentReached ==
    /\ batches = 1
    /\ consistentInput
    /\ Len(body.Context) = 2
    /\ \E i \in DOMAIN body.Actions : body.Actions[i].Action = "refresh"

\* ------------------------------------------------------------------------
\* extractSuggestedCurrency and SuggestedCurrency, called concurrently
\* ------------------------------------------------------------------------

\* every header is recorded, an absent one as ""
recordsEveryHeader(h) == TRUE

\* "if suggestedCurrency != """
recordsHeader(h) == h # ""

\* extractSuggestedCurrency(resp): the header is read; one that is absent
\* ends the call
ExtractCalled(g) ==
    /\ scPc[g] = "idle"
    /\ scOps < MaxCurrencyOps
    /\ scOps' = scOps + 1
    /\ \E h \in CurrencyHeaders :
          /\ scHeader' = [scHeader EXCEPT ![g] = h]
          /\ scPc' = [scPc EXCEPT ![g] = IF recordsHeader(h) THEN "wlock" ELSE "idle"]
    /\ UNCHANGED <<mu, suggestedCurrency, scRet, scReadAt, scRecorded>>
    /\ UNCHANGED notCurrency

\* s.mu.Lock() in extractSuggestedCurrency
ExtractLocks(g) ==
    /\ scPc[g] = "wlock"
    /\ mu = 0
    /\ mu' = g
    /\ scPc' = [scPc EXCEPT ![g] = "write"]
    /\ UNCHANGED <<suggestedCurrency, scHeader, scRet, scReadAt, scRecorded, scOps>>
    /\ UNCHANGED notCurrency

\* "s.suggestedCurrency = suggestedCurrency"
ExtractWrites(g) ==
    /\ scPc[g] = "write"
    /\ suggestedCurrency' = scHeader[g]
    /\ scRecorded' = Append(scRecorded, scHeader[g])
    /\ scPc' = [scPc EXCEPT ![g] = "wunlock"]
    /\ UNCHANGED <<mu, scHeader, scRet, scReadAt, scOps>>
    /\ UNCHANGED notCurrency

\* s.mu.Unlock() in extractSuggestedCurrency
ExtractUnlocks(g) ==
    /\ scPc[g] = "wunlock"
    /\ mu' = 0
    /\ scPc' = [scPc EXCEPT ![g] = "idle"]
    /\ UNCHANGED <<suggestedCurrency, scHeader, scRet, scReadAt, scRecorded, scOps>>
    /\ UNCHANGED notCurrency

\* SuggestedCurrency is called
SuggestedCurrencyCalled(g) ==
    /\ scPc[g] = "idle"
    /\ scOps < MaxCurrencyOps
    /\ scOps' = scOps + 1
    /\ scPc' = [scPc EXCEPT ![g] = "rlock"]
    /\ UNCHANGED <<mu, suggestedCurrency, scHeader, scRet, scReadAt, scRecorded>>
    /\ UNCHANGED notCurrency

\* s.mu.Lock() in SuggestedCurrency
SuggestedCurrencyLocks(g) ==
    /\ scPc[g] = "rlock"
    /\ mu = 0
    /\ mu' = g
    /\ scPc' = [scPc EXCEPT ![g] = "read"]
    /\ UNCHANGED <<suggestedCurrency, scHeader, scRet, scReadAt, scRecorded, scOps>>
    /\ UNCHANGED notCurrency

\* "if s.suggestedCurrency == "" { return "USD" }; return s.suggestedCurrency"
SuggestedCurrencyReads(g) ==
    /\ scPc[g] = "read"
    /\ scRet' = [scRet EXCEPT ![g] = IF suggestedCurrency = "" THEN "USD"
                                     ELSE suggestedCurrency]
    /\ scReadAt' = [scReadAt EXCEPT ![g] = Len(scRecorded)]
    /\ scPc' = [scPc EXCEPT ![g] = "runlock"]
    /\ UNCHANGED <<mu, suggestedCurrency, scHeader, scRecorded, scOps>>
    /\ UNCHANGED notCurrency

\* defer s.mu.Unlock() in SuggestedCurrency, and the return
SuggestedCurrencyReturns(g) ==
    /\ scPc[g] = "runlock"
    /\ mu' = 0
    /\ scPc' = [scPc EXCEPT ![g] = "idle"]
    /\ UNCHANGED <<suggestedCurrency, scHeader, scRet, scReadAt, scRecorded, scOps>>
    /\ UNCHANGED notCurrency

\* a new Store and goroutines about to use its suggested currency
InitCurrency ==
    /\ BeforeLastIdle
    /\ IdleURL /\ IdleDecode /\ IdleConn
    /\ IdleCurrency

NextCurrency ==
    \E g \in CurrencyGoroutines :
        \/ ExtractCalled(g)
        \/ ExtractLocks(g)
        \/ ExtractWrites(g)
        \/ ExtractUnlocks(g)
        \/ SuggestedCurrencyCalled(g)
        \/ SuggestedCurrencyLocks(g)
        \/ SuggestedCurrencyReads(g)
        \/ SuggestedCurrencyReturns(g)

SpecCurrency == InitCurrency /\ [][NextCurrency]_vars

\* goroutine g is between Lock and Unlock of mu
underMu(g) == scPc[g] \in {"write", "wunlock", "read", "runlock"}

\* C38: SuggestedCurrency never returns an empty string: it returns USD if no
\* non-empty header had been recorded when it read, else the header recorded
\* last before it read; a response without the header is not recorded and
\* leaves the stored value as it is; reads and writes happen under mu, which
\* one goroutine holds at a time
C38_SuggestedCurrency ==
    /\ \A g \in CurrencyGoroutines :
          /\ scRet[g] # ""
          /\ scRet[g] # "none" =>
                scRet[g] = (IF scReadAt[g] = 0 THEN "USD" ELSE scRecorded[scReadAt[g]])
          /\ underMu(g) <=> mu = g
    /\ \A i \in 1..Len(scRecorded) : scRecorded[i] # ""
    /\ suggestedCurrency = (IF scRecorded = <<>> THEN ""
                            ELSE scRecorded[Len(scRecorded)])
    /\ \A g, h \in CurrencyGoroutines : (underMu(g) /\ underMu(h)) => g = h

\* GBP then EUR were recorded, a response came without the header, and a
\* reader got EUR
C38_Witness ==
    /\ scRecorded = <<"GBP", "EUR">>
    /\ scOps = MaxCurrencyOps
    /\ \E g, h \in CurrencyGoroutines :
          /\ scPc[g] = "idle" /\ scRet[g] = "EUR"
          /\ scPc[h] = "idle" /\ scHeader[h] = ""

C38_DefaultReached ==
    \E g \in CurrencyGoroutines : scPc[g] = "idle" /\ scRet[g] = "USD" /\ scRecorded = <<>>

\* a reader returns the value it read while a later header is on record
C38_OvertakenReached ==
    \E g \in CurrencyGoroutines :
        scRet[g] = "USD" /\ scReadAt[g] = 0 /\ scRecorded # <<>> /\ scPc[g] = "idle"

C38_WaitingReached ==
    \E g, h \in CurrencyGoroutines : scPc[g] = "write" /\ scPc[h] = "rlock"

\* ------------------------------------------------------------------------
\* The cache after a successful Download
\* ------------------------------------------------------------------------

downloadSucceeded == dpc = "done" /\ dlResult = "ok"

artifactCached == cacheHolds(cacheFiles, cacheCap, dlInfo.Sha3_384)

\* C39, as stated: with a non-zero cache capacity the cache holds the hash of
\* the artifact after every successful Download, whether it was served by a
\* full download, a retry or a delta
C39_CachedAfterSuccess == (cacheCap > 0 /\ downloadSucceeded) => artifactCached

\* a Download that succeeded by a delta, with a cache that does not hold the
\* artifact
C39_DeltaNotCached ==
    /\ cacheCap > 0
    /\ downloadSucceeded
    /\ deltaTried /\ deltaErr = "none"
    /\ ~artifactCached

\* a full download, first or second run, puts the artifact into the cache
C39_FullDownloadCached ==
    (cacheCap > 0 /\ downloadSucceeded /\ ~deltaTried) =>
        /\ artifactCached
        /\ cacheLast.op \in {"Get", "Put"}
        /\ cacheLast.op = "Get" => cacheLast.hit

C39_SecondRunCached == cacheCap > 0 /\ downloadSucceeded /\ pass = 2 /\ artifactCached

C39_ServedFromCache ==
    /\ cacheCap > 0 /\ downloadSucceeded
    /\ cacheLast.op = "Get" /\ cacheLast.hit
    /\ attempts = 0 /\ deltaRequests = 0

\* ------------------------------------------------------------------------
\* The caller's current snaps and actions across a SnapAction call
\* ------------------------------------------------------------------------

\* C40, as stated: SnapAction leaves the caller's current snaps and actions
\* as they are, and every batch after the first has the body of the first
C40_InputUnchanged ==
    [][/\ currentSnaps' = currentSnaps
       /\ actions' = actions
       /\ (batches >= 1 /\ batches' > batches) => body' = body]_vars

\* what the code does keep: the current snaps, and of the actions everything
\* but the channel of an action with a revision; from the second batch on the
\* body stays the same
C40_OnlyChannelsChange ==
    [][/\ currentSnaps' = currentSnaps
       /\ Len(actions') = Len(actions)
       /\ \A i \in 1..Len(actions) :
             \/ actions'[i] = actions[i]
             \/ /\ actions[i].Revision # 0
                /\ actions'[i] = [actions[i] EXCEPT !.Channel = ""]
       /\ (batches >= 2 /\ batches' > batches) => body' = body]_vars

\* the caller's install of channel "beta" and revision 9 after the first
\* batch: the action has lost its channel, and the error the store answered
\* for it is reported without it
C40_ChannelLost ==
    /\ batches = 1
    /\ saPc = "returned"
    /\ Len(actions) = 1
    /\ actions[1].Action = "install" /\ actions[1].Revision = 9 /\ actions[1].Channel = ""
    /\ body.Actions[1].Channel = "beta"
    /\ \E name \in DOMAIN saErr.Install : saErr.Install[name].channel = ""

\* the second batch of that call: its body differs from the first in the
\* channel
C40_RetryDiffers ==
    /\ batches = 2
    /\ Len(actions) = 1
    /\ actions[1].Revision = 9
    /\ body.Actions[1].Channel = ""

====
